---- MODULE Spec2Model ----
(***************************************************************************)
(* Model of the rebalancing and valuation engine of the execution service: *)
(* the allocation batch writer (add_allocations), the trade planner and    *)
(* executor (execute_full_trade, calculate_trades, execute_trades), the    *)
(* seeding step (ensure_initial_position) and the month replay             *)
(* (update_portfolio_balance).  The relational tables are sequences of     *)
(* rows in insertion order; a row's index stands for its uuid key.         *)
(*                                                                         *)
(* Numbers.  Python Decimal values with four decimal places are pairs      *)
(* <<w, f>> meaning w + f/10000 with 0 <= f < 10000 (w may be negative).   *)
(* Prices of the model are whole numbers, so balances are whole numbers.   *)
(* Allocation percentages are counted in units of 1/10000.                 *)
(*                                                                         *)
(* Time.  Day 1 is 2024-01-01 (a Monday).  A timestamp is 2*day for        *)
(* midnight of the day and 2*day + 1 for the market close (13:00           *)
(* America/Los_Angeles) of the day.                                        *)
(***************************************************************************)
EXTENDS Integers, Sequences, FiniteSets, TLC

VARIABLES
    symbols,          \* table symbols: the tickers it has a row for
    symbol_prices,    \* table symbol_prices: <<symbol, day>> -> price, partial
    allocations,      \* table allocations, rows in insertion order
    positions,        \* table positions (the position ledger)
    trades,           \* table trades
    portfolio_stats,  \* table portfolio_stats
    last,             \* what the last operation was given and what it returned
    budget,           \* how many more operations of each kind the model runs
    backtest,         \* the run of run_backtest: where it is and what it has done
    calls             \* the execute_full_trade requests in progress, by worker

vars == <<symbols, symbol_prices, allocations, positions, trades, portfolio_stats, last, budget,
          backtest, calls>>

-----------------------------------------------------------------------------
(* Bounds of the model *)

MaxBatches == 2
MaxExecs == 2
MaxReplays == 2
MaxSeeds == 1
MaxReseeds == 2
MaxMonth == 2
MaxQuoteDay == 9
\* manual updates written
MaxUpdates == 2

-----------------------------------------------------------------------------
(* Reference data: the symbols table and the portfolios *)

MONEY_MARKET == "MONEY_MARKET"
Symbols == {MONEY_MARKET, "A", "B"}
UnknownTicker == "ZZZ"
Tickers == Symbols \cup {UnknownTicker}
Portfolios == {"P1"}
None == "None"

BUY == "Buy"
SELL == "Sell"
REASON == "Portfolio rebalancing"
BALANCE_REASON == "Balance adjustment"

\* utils.get_symbol_id: the symbol's id, or None for a ticker not in the table
get_symbol_id(ticker) == IF ticker \in symbols THEN ticker ELSE None

-----------------------------------------------------------------------------
(* Decimal arithmetic *)

DecScale == 10000
PctScale == DecScale
AllocTolerance == 1
SeedQuantity == 1000000
days_lookback == 90
lookback_days == 60

Dec(n) == <<n, 0>>
DecNorm(w, f) == <<w + (f \div DecScale), f % DecScale>>
DecAdd(a, b) == DecNorm(a[1] + b[1], a[2] + b[2])
DecNeg(a) == IF a[2] = 0 THEN <<0 - a[1], 0>> ELSE <<0 - a[1] - 1, DecScale - a[2]>>
DecSub(a, b) == DecAdd(a, DecNeg(b))
DecLt(a, b) == a[1] < b[1] \/ (a[1] = b[1] /\ a[2] < b[2])
DecLe(a, b) == a = b \/ DecLt(a, b)
DecZero == Dec(0)
\* price * quantity for a whole-number price p >= 0
DecMulInt(a, p) == DecNorm(a[1] * p, a[2] * p)

\* total_value * allocation_pct, for a whole total v >= 0 and pct in units of 1/PctScale
TargetValue(v, pct) ==
    LET vh == v \div PctScale
        vl == v % PctScale
    IN  DecNorm(vh * pct + ((vl * pct) \div PctScale),
                (((vl * pct) % PctScale) * DecScale) \div PctScale)

\* (a / p).quantize(Decimal('0.0001'), ROUND_HALF_UP) for a >= 0 and whole p > 0
QuantizeDiv(a, p) ==
    LET q0 == a[1] \div p
        rest == (a[1] % p) * DecScale + a[2]
    IN  DecNorm(q0, (2 * rest + p) \div (2 * p))

\* The column positions.quantity is declared Integer: PostgreSQL stores a
\* numeric value assigned to it rounded to the nearest whole number
\* (a half rounds away from zero).  Only values >= 0 are stored.
IntegerColumn(a) == IF a[2] * 2 >= DecScale THEN a[1] + 1 ELSE a[1]

-----------------------------------------------------------------------------
(* Calendar *)

DaysInMonth(m) == IF m = 2 THEN 29 ELSE IF m \in {4, 6, 9, 11} THEN 30 ELSE 31

RECURSIVE DaysBefore(_)
DaysBefore(m) == IF m <= 1 THEN 0 ELSE DaysBefore(m - 1) + DaysInMonth(m - 1)

\* get_all_days_in_month(2024, m), as day numbers in increasing order
get_all_days_in_month(m) == [i \in 1..DaysInMonth(m) |-> DaysBefore(m) + i]

\* date.weekday(): 0 is Monday; day 1 (2024-01-01) is a Monday
Weekday(d) == (d - 1) % 7
is_trading_day(d) == Weekday(d) < 5

Midnight(d) == 2 * d
MarketClose(d) == 2 * d + 1
DateOf(ts) == ts \div 2

-----------------------------------------------------------------------------
(* Queries *)

Max(S) == CHOOSE x \in S : \A y \in S : y <= x
Min(S) == CHOOSE x \in S : \A y \in S : x <= y
Range(s) == {s[i] : i \in DOMAIN s}

\* a lookup that falls forward to the next price point when none is earlier
get_symbol_price_FallsForward(prices, symbol_id, d) ==
    IF symbol_id = MONEY_MARKET THEN 1
    ELSE LET points == {k \in DOMAIN prices : k[1] = symbol_id}
             earlier == {k \in points : k[2] <= d}
         IN  IF points = {} THEN 0
             ELSE IF earlier # {} THEN prices[<<symbol_id, Max({k[2] : k \in earlier})>>]
             ELSE prices[<<symbol_id, Min({k[2] : k \in points})>>]

\* utils.get_symbol_price: 1 for MONEY_MARKET; the price point of the day;
\* else the most recent earlier price point; else 0
get_symbol_price(prices, symbol_id, d) ==
    IF symbol_id = MONEY_MARKET THEN 1
    ELSE IF <<symbol_id, d>> \in DOMAIN prices THEN prices[<<symbol_id, d>>]
    ELSE LET earlier == {k \in DOMAIN prices : k[1] = symbol_id /\ k[2] < d}
         IN  IF earlier = {} THEN 0
             ELSE prices[<<symbol_id, Max({k[2] : k \in earlier})>>]

-----------------------------------------------------------------------------
(* Inputs of the model *)

\* Price tables the model starts from, each from its price points
\* <<symbol, day, price>>: A and B have price points on days 1 and 3 at most
PriceTable(points) ==
    [k \in {<<p[1], p[2]>> : p \in points} |->
        (CHOOSE p \in points : <<p[1], p[2]>> = k)[3]]

PriceScenarios ==
    { PriceTable({<<"A", 1, 2>>, <<"B", 1, 4>>}),
      PriceTable({<<"A", 1, 3>>}),
      PriceTable({<<"A", 1, 2>>, <<"A", 3, 1>>, <<"B", 1, 4>>, <<"B", 3, 8>>}),
      PriceTable({<<"A", 1, 3>>, <<"A", 3, 2>>, <<"B", 3, 5>>}) }

\* Allocation dictionaries a caller posts to the rebalancing endpoints
TradeDicts ==
    { <<<<"A", 10000>>>>,
      <<<<"A", 5000>>, <<"B", 5000>>>>,
      <<<<MONEY_MARKET, 10000>>>> }
\* Allocation dictionaries a caller posts to add_allocations: sums around 1,
\* the sum 0.9, and an unknown ticker first, in the middle and last
AllocDicts ==
    { <<<<"A", 6000>>, <<"B", 4000>>>>,
      <<<<"A", 6000>>, <<"B", 3000>>>>,
      <<<<"A", 5000>>, <<"B", 5001>>>>,
      <<<<"A", 5000>>, <<"B", 5002>>>>,
      <<<<"A", 5000>>, <<"B", 4999>>>>,
      <<<<"A", 5000>>, <<"B", 4998>>>>,
      <<<<"A", 5>>, <<"B", 9994>>>>,
      <<<<MONEY_MARKET, 10000>>>>,
      <<<<UnknownTicker, 10000>>>>,
      <<<<"A", 5000>>, <<UnknownTicker, 5000>>>>,
      <<<<"A", 2500>>, <<UnknownTicker, 2500>>, <<"B", 5000>>>>,
      <<<<UnknownTicker, 5000>>, <<"A", 5000>>>> }
\* The price tables and the batches <<date, dictionary>> of the replay
\* specification
ReplayPriceScenarios ==
    { PriceTable({<<"A", 1, 2>>, <<"A", 3, 1>>, <<"B", 1, 4>>, <<"B", 3, 8>>}),
      PriceTable({<<"A", 1, 3>>, <<"A", 3, 2>>, <<"B", 3, 5>>}) }
ReplayBatches ==
    { <<"2024-01-02", <<<<"A", 10000>>>>>>,
      <<"2024-01-04", <<<<"A", 5000>>, <<"B", 5000>>>>>> }
\* Date strings a caller posts; 2023-12-31 is day 0, before every stat
AllocDates == {"2023-12-31", "2024-01-02", "2024-01-04"}
DateInputs == AllocDates \cup {"01/02/2024"}
\* Dates a caller of add_portfolio gives: two Wednesdays; None is no date,
\* and the portfolio starts at the current time
StartDates == {"2024-01-03", "2024-01-10"}
StartInputs == StartDates \cup {None, "01/02/2024"}
\* The allocation_dates lists and the batches <<date, dictionary>> of the
\* backtest specification
BacktestDateLists ==
    { <<"2024-01-02">>,
      <<"2024-01-02", "2024-02-01">>,
      <<"2024-02-01", "2024-01-02">>,
      <<"2024-01-02", "2024-01-04">> }
BacktestBatches ==
    { <<"2024-01-02", <<<<"A", 10000>>>>>>,
      <<"2024-02-01", <<<<"A", 5000>>, <<"B", 5000>>>>>> }
BadPortfolio == "not-a-uuid"
\* a second portfolio of the database, of another user
OtherPortfolio == "P2"
PortfolioInputs == Portfolios \cup {BadPortfolio}
\* which of several rows that tie in an ORDER BY ... LIMIT 1 the database returns
TieBreaks == {"first", "last"}

-----------------------------------------------------------------------------
(* Session: rows added to a session reach the table at commit only *)

\* session.commit(): the pending rows are appended to the table
Commit(table, pending) == table \o pending

\* a rollback that keeps what the session had added
RollbackKeepsPending(table, pending) == table \o pending

\* session.rollback(), or closing a session that was not committed
Rollback(table, pending) == table

NoLast == [op |-> "none", status |-> "none", info |-> <<>>]

\* no run of run_backtest has started
NoBacktest ==
    [pc |-> "idle", portfolio_id |-> None, filtered_dates |-> <<>>, i |-> 0,
     allocation_batch_id |-> 0, results |-> <<>>, steps |-> <<>>]

\* The workers that serve execute_full_trade requests side by side, and a
\* worker that has no request
Workers == {1, 2}
NoCall ==
    [pc |-> "idle", batch |-> 0, portfolio_id |-> None, trade_date |-> 0,
     plan |-> <<>>, current |-> <<>>, found |-> <<>>]
NoCalls == [w \in Workers |-> NoCall]

\* The empty database, with how many operations of each kind the run performs
InitFrom(scenarios, b) ==
    /\ symbols = Symbols
    /\ symbol_prices \in scenarios
    /\ allocations = <<>>
    /\ positions = <<>>
    /\ trades = <<>>
    /\ portfolio_stats = <<>>
    /\ last = NoLast
    /\ budget = b
    /\ backtest = NoBacktest
    /\ calls = NoCalls

InitWith(b) == InitFrom(PriceScenarios, b)

Init ==
    InitWith([batch |-> MaxBatches, exec |-> MaxExecs, replay |-> MaxReplays,
              seed |-> MaxSeeds, create |-> 0])

-----------------------------------------------------------------------------
(* ensure_initial_position: the destructive reset that seeds a portfolio *)

NotOf(table, pid) == SelectSeq(table, LAMBDA r : r.portfolio_id # pid)

SeedPosition(pid) ==
    [portfolio_id |-> pid, symbol_id |-> MONEY_MARKET,
     quantity |-> SeedQuantity, recorded_at |-> Midnight(1)]

SeedStat(pid) ==
    [portfolio_id |-> pid, portfolio_balance |-> SeedQuantity,
     recorded_at |-> Midnight(1), alpha |-> "zero", beta |-> "zero",
     max_drawdown |-> "zero", sharpe_ratio |-> "zero", std_dev |-> "zero",
     turnover |-> 0]

\* a reset that keeps the trades of the portfolio
ensure_initial_position_KeepsTrades(pid, raises) ==
    /\ budget.seed > 0
    /\ positions' = Commit(NotOf(positions, pid), <<SeedPosition(pid)>>)
    /\ portfolio_stats' = Commit(NotOf(portfolio_stats, pid), <<SeedStat(pid)>>)
    /\ last' = [op |-> "ensure_initial_position", status |-> "success", info |-> <<pid>>]
    /\ budget' = [budget EXCEPT !.seed = @ - 1]
    /\ UNCHANGED <<symbols, symbol_prices, allocations, trades>>

\* ensure_initial_position(portfolio_id): one transaction that deletes the
\* positions, stats and trades of the portfolio and writes the seed rows.  It
\* returns False, with nothing committed, for an id that is no UUID and when
\* a statement or the commit raises
ensure_initial_position(pid, raises) ==
    IF pid = BadPortfolio \/ raises
    THEN /\ last' = [op |-> "ensure_initial_position", status |-> "error", info |-> <<pid>>]
         /\ positions' = Rollback(positions, <<SeedPosition(pid)>>)
         /\ portfolio_stats' = Rollback(portfolio_stats, <<SeedStat(pid)>>)
         /\ trades' = Rollback(trades, <<>>)
         /\ UNCHANGED <<symbols, symbol_prices, allocations, budget>>
    ELSE /\ budget.seed > 0
         /\ positions' = Commit(NotOf(positions, pid), <<SeedPosition(pid)>>)
         /\ portfolio_stats' = Commit(NotOf(portfolio_stats, pid), <<SeedStat(pid)>>)
         /\ trades' = NotOf(trades, pid)
         /\ last' = [op |-> "ensure_initial_position", status |-> "success", info |-> <<pid>>]
         /\ budget' = [budget EXCEPT !.seed = @ - 1]
         /\ UNCHANGED <<symbols, symbol_prices, allocations>>

-----------------------------------------------------------------------------
(* add_allocations: the allocation batch writer *)

RECURSIVE SumPct(_)
SumPct(dict) == IF dict = <<>> THEN 0 ELSE dict[1][2] + SumPct(Tail(dict))

Abs(n) == IF n < 0 THEN 0 - n ELSE n

\* sum(allocations.values()) and abs(total_allocation - 1.0) are computed on
\* floats: a sum whose exact distance from 1 is the tolerance itself lands on
\* either side of it, as the operands round ({0.5, 0.4999} lands within it,
\* {0.0005, 0.9994} beyond it)
SumRoundings(dict) ==
    IF Abs(SumPct(dict) - PctScale) = AllocTolerance THEN {"within", "beyond"} ELSE {"exact"}

\* a sum check whose tolerance is 0.001
SumAcceptedLoose(total, rounding) == ~ (Abs(total - PctScale) > 10 * AllocTolerance)

\* the check of add_allocations on the sum of the percentages
SumAccepted(total, rounding) ==
    IF Abs(total - PctScale) = AllocTolerance THEN rounding = "within"
    ELSE ~ (Abs(total - PctScale) > AllocTolerance)

\* index of the first ticker of the dictionary that is not a known symbol, or 0
FirstUnknown(dict) ==
    LET bad == {i \in DOMAIN dict : get_symbol_id(dict[i][1]) = None}
    IN  IF bad = {} THEN 0 ELSE Min(bad)

\* datetime.strptime(date, "%Y-%m-%d"): the day number of a date string of
\* that format; any other string raises
DateTable == [t \in AllocDates \cup StartDates \cup {"2024-02-01"} |->
                 IF t = "2023-12-31" THEN 0 ELSE IF t = "2024-01-02" THEN 2
                 ELSE IF t = "2024-01-03" THEN 3 ELSE IF t = "2024-01-04" THEN 4
                 ELSE IF t = "2024-01-10" THEN 10 ELSE 32]
strptime_ok(date) == date \in DOMAIN DateTable
strptime(date) == DateTable[date]

\* datetime.now(pst) of add_portfolio: Saturday 2024-01-06, in the afternoon
current_time == MarketClose(6)

\* add_portfolio(user_id, portfolio_name, date): a portfolio of a new id, with
\* 1,000,000 MONEY_MARKET and a stat of 1,000,000 recorded at the date given,
\* or at the current time; a date of another format raises, and nothing is
\* written
add_portfolio(pid, date) ==
    LET recorded_at == IF date = None THEN current_time ELSE Midnight(strptime(date))
    IN  /\ budget.create > 0
        /\ \A i \in DOMAIN positions : positions[i].portfolio_id # pid
        /\ \A i \in DOMAIN portfolio_stats : portfolio_stats[i].portfolio_id # pid
        /\ \A i \in DOMAIN allocations : allocations[i].portfolio_id # pid
        /\ \A i \in DOMAIN trades : trades[i].portfolio_id # pid
        /\ UNCHANGED <<symbols, symbol_prices, allocations, trades>>
        /\ IF date # None /\ ~ strptime_ok(date)
           THEN /\ last' = [op |-> "add_portfolio", status |-> "error", info |-> <<pid, date>>]
                /\ UNCHANGED <<positions, portfolio_stats, budget>>
           ELSE /\ positions' = Commit(positions,
                                       <<[SeedPosition(pid) EXCEPT !.recorded_at = recorded_at]>>)
                /\ portfolio_stats' = Commit(portfolio_stats,
                                             <<[SeedStat(pid) EXCEPT !.recorded_at = recorded_at]>>)
                /\ last' = [op |-> "add_portfolio", status |-> "success", info |-> <<pid, date>>]
                /\ budget' = [budget EXCEPT !.create = @ - 1]

\* uuid.uuid4() for the batch: an id no batch of the table has
NextBatchId(allocs) == 1 + Max({0} \cup {allocs[i].allocation_batch_id : i \in DOMAIN allocs})

\* the rows session.add has received when the loop ends or raises
SessionAllocations(pid, date, dict, batch) ==
    LET n == IF FirstUnknown(dict) = 0 THEN Len(dict) ELSE FirstUnknown(dict) - 1
    IN  [i \in 1..n |->
            [allocated_at |-> Midnight(strptime(date)), allocation_pct |-> dict[i][2],
             portfolio_id |-> pid, symbol_id |-> get_symbol_id(dict[i][1]),
             allocation_batch_id |-> batch]]

add_allocations(pid, date, dict, rounding) ==
    LET total == SumPct(dict)
        batch == NextBatchId(allocations)
        given == [portfolio_id |-> pid, date |-> date, allocations |-> dict]
        rejected(why, table) ==
            /\ allocations' = table
            /\ last' = [op |-> "add_allocations", status |-> "rejected",
                        info |-> [given |-> given, why |-> why, total |-> total]]
            /\ UNCHANGED budget
    IN  /\ budget.batch > 0
        /\ UNCHANGED <<symbols, symbol_prices, positions, trades, portfolio_stats>>
        /\ IF ~ SumAccepted(total, rounding) THEN rejected("sum", allocations)
           ELSE IF ~ strptime_ok(date) THEN rejected("date", allocations)
           ELSE IF pid = BadPortfolio THEN rejected("portfolio", allocations)
           ELSE IF FirstUnknown(dict) # 0
                THEN rejected("symbol",
                              Rollback(allocations, SessionAllocations(pid, date, dict, batch)))
           ELSE /\ allocations' = Commit(allocations, SessionAllocations(pid, date, dict, batch))
                /\ last' = [op |-> "add_allocations", status |-> "accepted",
                            info |-> [given |-> given, why |-> "", total |-> total,
                                      batch |-> batch]]
                /\ budget' = [budget EXCEPT !.batch = @ - 1]

-----------------------------------------------------------------------------
(* Ledger and stat queries *)

SymbolOrder == <<MONEY_MARKET, "A", "B">>

RowsOf(table, pid) == {i \in DOMAIN table : table[i].portfolio_id = pid}

\* ORDER BY recorded_at DESC LIMIT 1 over the rows idx of table: a row of the
\* greatest recorded_at; among several, the one the tie-break names
LatestRow(table, idx, tb) ==
    LET top == Max({table[i].recorded_at : i \in idx})
        ties == {i \in idx : table[i].recorded_at = top}
    IN  IF tb = "first" THEN Min(ties) ELSE Max(ties)

\* The tie-breaks that matter for a query over a table: both when two rows of
\* one portfolio (and one symbol, in the ledger) share a recorded_at (two
\* different stats share a date), else one
PositionTieBreaks(pos) ==
    IF \E i, j \in DOMAIN pos :
          /\ i < j /\ pos[i].portfolio_id = pos[j].portfolio_id
          /\ pos[i].symbol_id = pos[j].symbol_id /\ pos[i].recorded_at = pos[j].recorded_at
    THEN TieBreaks ELSE {"first"}

StatTieBreaks(stats) ==
    IF \E i, j \in DOMAIN stats :
          /\ i < j /\ stats[i].portfolio_id = stats[j].portfolio_id
          /\ DateOf(stats[i].recorded_at) = DateOf(stats[j].recorded_at)
          /\ stats[i] # stats[j]
    THEN TieBreaks ELSE {"first"}

\* get_latest_positions: for each symbol of the portfolio, the row of its
\* latest snapshot (no bound on recorded_at)
get_latest_positions(pos, pid, tb) ==
    LET held == {pos[i].symbol_id : i \in RowsOf(pos, pid)}
    IN  [s \in held |->
            pos[LatestRow(pos, {i \in RowsOf(pos, pid) : pos[i].symbol_id = s}, tb)]]

\* calculate_positions_value: the balance of a stat of that date, else of the
\* most recent stat of an earlier date, else 0
calculate_positions_value(stats, pid, d, tb) ==
    LET mine == RowsOf(stats, pid)
        onDay == {i \in mine : DateOf(stats[i].recorded_at) = d}
        upTo == {i \in mine : DateOf(stats[i].recorded_at) <= d}
    IN  IF onDay # {}
        THEN stats[IF tb = "first" THEN Min(onDay) ELSE Max(onDay)].portfolio_balance
        ELSE IF upTo # {} THEN stats[LatestRow(stats, upTo, tb)].portfolio_balance
        ELSE 0

-----------------------------------------------------------------------------
(* calculate_trades: the trade planner *)

Intent(pid, s, side, qty, price, reason) ==
    [portfolio_id |-> pid, symbol_id |-> s, trade_type |-> side,
     quantity |-> qty, price |-> price, reason |-> reason]

\* STEP 1: target quantities of the allocated symbols whose price is not 0
TargetQuantities(allocs, lp, prices, d, total) ==
    LET priced == {i \in DOMAIN allocs : get_symbol_price(prices, allocs[i].symbol_id, d) # 0}
        row(s) == allocs[Max({i \in priced : allocs[i].symbol_id = s})]
    IN  [s \in {allocs[i].symbol_id : i \in priced} |->
            [price |-> get_symbol_price(prices, s, d),
             target_quantity |->
                 QuantizeDiv(TargetValue(total, row(s).allocation_pct),
                             get_symbol_price(prices, s, d)),
             current_quantity |->
                 IF s \in DOMAIN lp THEN Dec(lp[s].quantity) ELSE DecZero]]

\* STEP 2, for one held symbol: liquidate it when it is not allocated, trim
\* the excess when it is above its target
SellTrade(pid, s, allocs, lp, tq, prices, d) ==
    IF s \notin DOMAIN lp \/ lp[s].quantity <= 0 THEN <<>>
    ELSE IF s \notin {allocs[i].symbol_id : i \in DOMAIN allocs}
    THEN <<Intent(pid, s, SELL, Dec(lp[s].quantity), get_symbol_price(prices, s, d), REASON)>>
    ELSE IF s \in DOMAIN tq /\ DecLt(tq[s].target_quantity, Dec(lp[s].quantity))
    THEN <<Intent(pid, s, SELL, DecSub(Dec(lp[s].quantity), tq[s].target_quantity),
                  tq[s].price, REASON)>>
    ELSE <<>>

\* STEP 3, for one target: top up the deficit unless it is below 0.0001
BuyTrade(pid, s, tq) ==
    IF s \notin DOMAIN tq \/ DecLe(tq[s].target_quantity, tq[s].current_quantity) THEN <<>>
    ELSE IF DecLt(DecSub(tq[s].target_quantity, tq[s].current_quantity), <<0, 1>>) THEN <<>>
    ELSE <<Intent(pid, s, BUY, DecSub(tq[s].target_quantity, tq[s].current_quantity),
                  tq[s].price, REASON)>>

RECURSIVE TotalValue(_)
TotalValue(intents) ==
    IF intents = <<>> THEN DecZero
    ELSE DecAdd(DecMulInt(intents[1].quantity, intents[1].price), TotalValue(Tail(intents)))

\* the MONEY_MARKET trade that settles the difference between sells and buys
BalancingTrade(pid, total_sell_value, total_buy_value) ==
    IF total_sell_value # total_buy_value
       /\ DecLt(DecZero, DecSub(total_sell_value, total_buy_value))
       /\ MONEY_MARKET \in symbols
    THEN <<Intent(pid, MONEY_MARKET, BUY, DecSub(total_sell_value, total_buy_value),
                  1, BALANCE_REASON)>>
    ELSE <<>>

calculate_trades(allocs, lp, prices, d, total) ==
    LET pid == allocs[1].portfolio_id
        tq == TargetQuantities(allocs, lp, prices, d, total)
        sells == SellTrade(pid, SymbolOrder[1], allocs, lp, tq, prices, d)
                 \o SellTrade(pid, SymbolOrder[2], allocs, lp, tq, prices, d)
                 \o SellTrade(pid, SymbolOrder[3], allocs, lp, tq, prices, d)
        buys == BuyTrade(pid, SymbolOrder[1], tq) \o BuyTrade(pid, SymbolOrder[2], tq)
                \o BuyTrade(pid, SymbolOrder[3], tq)
    IN  sells \o buys \o BalancingTrade(pid, TotalValue(sells), TotalValue(buys))

-----------------------------------------------------------------------------
(* execute_trades: the trade executor *)

ORDER_TYPE == "Market"

\* the Trade rows, one per intent, stamped at the market close of the trade date
TradeRecords(intents, d) ==
    [i \in DOMAIN intents |->
        [portfolio_id |-> intents[i].portfolio_id, symbol_id |-> intents[i].symbol_id,
         traded_at |-> MarketClose(d), trade_type |-> intents[i].trade_type,
         order_type |-> ORDER_TYPE, price |-> intents[i].price,
         quantity |-> intents[i].quantity, reason |-> intents[i].reason]]

\* position_changes[s]: the net signed quantity of the intents of symbol s
RECURSIVE PositionChange(_, _)
PositionChange(intents, s) ==
    IF intents = <<>> THEN DecZero
    ELSE LET t == intents[1]
             delta == IF t.symbol_id # s THEN DecZero
                      ELSE IF t.trade_type = SELL THEN DecNeg(t.quantity)
                      ELSE t.quantity
         IN  DecAdd(delta, PositionChange(Tail(intents), s))

\* the keys of position_changes, in the order of their first intent
RECURSIVE ChangedSymbols(_)
ChangedSymbols(intents) ==
    IF intents = <<>> THEN <<>>
    ELSE LET n == Len(intents)
             before == ChangedSymbols(SubSeq(intents, 1, n - 1))
         IN  IF intents[n].symbol_id \in Range(before) THEN before
             ELSE Append(before, intents[n].symbol_id)

\* the snapshot written for one changed symbol: the new quantity when it is
\* positive, a zero snapshot when the symbol had a position, else nothing
NewPosition(pid, s, intents, current, d) ==
    LET current_quantity == IF s \in DOMAIN current THEN Dec(current[s].quantity) ELSE DecZero
        new_quantity == DecAdd(current_quantity, PositionChange(intents, s))
    IN  IF DecLt(DecZero, new_quantity)
        THEN <<[portfolio_id |-> pid, symbol_id |-> s,
                quantity |-> IntegerColumn(new_quantity), recorded_at |-> MarketClose(d)]>>
        ELSE IF s \in DOMAIN current
        THEN <<[portfolio_id |-> pid, symbol_id |-> s,
                quantity |-> 0, recorded_at |-> MarketClose(d)]>>
        ELSE <<>>

RECURSIVE NewPositions(_, _, _, _, _)
NewPositions(pid, syms, intents, current, d) ==
    IF syms = <<>> THEN <<>>
    ELSE NewPosition(pid, syms[1], intents, current, d)
         \o NewPositions(pid, Tail(syms), intents, current, d)

\* Where an execution can fail once it has started adding Trade rows
FailPoints == {"none", "flush", "positions", "commit"}

\* execute_trades raises: at an injected failure, or on trades_to_execute[0]
\* when there is no intent
ExecuteRaises(intents, fail) == fail # "none" \/ intents = <<>>

-----------------------------------------------------------------------------
(* execute_full_trade *)

BatchRows(allocs, batch_id) == SelectSeq(allocs, LAMBDA r : r.allocation_batch_id = batch_id)

\* a stat lookup that forgets the bound on recorded_at
StatsOfAnyDate(stats, pid, ts) == RowsOf(stats, pid)

\* stats of the portfolio recorded at or before the batch's allocated_at
StatsUpTo(stats, pid, ts) == {i \in RowsOf(stats, pid) : stats[i].recorded_at <= ts}

ExecError(batch_id, why) ==
    /\ last' = [op |-> "execute_full_trade", status |-> "error",
                info |-> [batch |-> batch_id, why |-> why, planned |-> FALSE]]
    /\ UNCHANGED <<trades, positions, budget>>

execute_full_trade(batch_id, fail, tbStat, tbValue, tbPlan, tbExec) ==
    LET allocs == BatchRows(allocations, batch_id)
        pid == allocs[1].portfolio_id
        allocated_at == allocs[1].allocated_at
        trade_date == DateOf(allocated_at)
        upTo == StatsUpTo(portfolio_stats, pid, allocated_at)
        portfolio_balance == portfolio_stats[LatestRow(portfolio_stats, upTo, tbStat)].portfolio_balance
        latest_positions == get_latest_positions(positions, pid, tbPlan)
        total == calculate_positions_value(portfolio_stats, pid, trade_date, tbValue)
        plan == calculate_trades(allocs, latest_positions, symbol_prices, trade_date, total)
        current == get_latest_positions(positions, pid, tbExec)
        new_trades == TradeRecords(plan, trade_date)
        new_positions == NewPositions(pid, ChangedSymbols(plan), plan, current, trade_date)
        info == [batch |-> batch_id, why |-> fail, planned |-> TRUE, plan |-> plan,
                 prior |-> [s \in DOMAIN current |-> current[s].quantity],
                 total_value |-> total, trade_date |-> trade_date, portfolio_id |-> pid,
                 targets |-> TargetQuantities(allocs, latest_positions, symbol_prices,
                                              trade_date, total),
                 held |-> DOMAIN latest_positions,
                 latest_positions |-> [s \in DOMAIN latest_positions |->
                                          [quantity |-> latest_positions[s].quantity,
                                           recorded_at |-> latest_positions[s].recorded_at]],
                 allocated |-> {allocs[i].symbol_id : i \in DOMAIN allocs},
                 trades_before |-> Len(trades), positions_before |-> Len(positions)]
    IN  /\ UNCHANGED <<symbols, symbol_prices, allocations, portfolio_stats>>
        /\ IF allocs = <<>> THEN ExecError(batch_id, "no allocations")
           ELSE IF upTo = {} THEN ExecError(batch_id, "no stats")
           ELSE IF portfolio_balance <= 0 THEN ExecError(batch_id, "balance")
           ELSE IF ExecuteRaises(plan, fail)
           THEN /\ trades' = Rollback(trades, new_trades)
                /\ positions' = Rollback(positions, new_positions)
                /\ last' = [op |-> "execute_full_trade", status |-> "error", info |-> info]
                /\ UNCHANGED budget
           ELSE /\ budget.exec > 0
                /\ trades' = Commit(trades, new_trades)
                /\ positions' = Commit(positions, new_positions)
                /\ last' = [op |-> "execute_full_trade", status |-> "success", info |-> info]
                /\ budget' = [budget EXCEPT !.exec = @ - 1]

\* execute_full_trade run by a worker, in the steps at which another worker's
\* commit can fall between its statements.  First step: the batch, the stat,
\* the latest positions and the plan (the reads of execute_full_trade and
\* calculate_trades)
trade_start(w, batch_id, tbStat, tbValue, tbPlan) ==
    LET allocs == BatchRows(allocations, batch_id)
        pid == allocs[1].portfolio_id
        allocated_at == allocs[1].allocated_at
        trade_date == DateOf(allocated_at)
        upTo == StatsUpTo(portfolio_stats, pid, allocated_at)
        portfolio_balance == portfolio_stats[LatestRow(portfolio_stats, upTo, tbStat)].portfolio_balance
        latest_positions == get_latest_positions(positions, pid, tbPlan)
        total == calculate_positions_value(portfolio_stats, pid, trade_date, tbValue)
        plan == calculate_trades(allocs, latest_positions, symbol_prices, trade_date, total)
    IN  /\ calls[w].pc = "idle"
        /\ UNCHANGED <<symbols, symbol_prices, allocations, portfolio_stats>>
        /\ IF allocs = <<>> THEN ExecError(batch_id, "no allocations") /\ UNCHANGED calls
           ELSE IF upTo = {} THEN ExecError(batch_id, "no stats") /\ UNCHANGED calls
           ELSE IF portfolio_balance <= 0 THEN ExecError(batch_id, "balance") /\ UNCHANGED calls
           ELSE /\ budget.exec > 0
                /\ budget' = [budget EXCEPT !.exec = @ - 1]
                /\ calls' = [calls EXCEPT ![w] =
                                [pc |-> "planned", batch |-> batch_id, portfolio_id |-> pid,
                                 trade_date |-> trade_date, plan |-> plan, current |-> <<>>,
                                 found |-> [positions |-> positions, trades |-> trades]]]
                /\ UNCHANGED <<trades, positions, last>>

\* second step, in execute_trades: the trades are added and flushed, and the
\* current positions are read; with no intent, trades_to_execute[0] raises and
\* the request ends in an error
trade_read(w, tbExec) ==
    /\ calls[w].pc = "planned"
    /\ UNCHANGED <<symbols, symbol_prices, allocations, portfolio_stats, trades, positions,
                   budget>>
    /\ IF calls[w].plan = <<>>
       THEN /\ calls' = [calls EXCEPT ![w].pc = "done"]
            /\ last' = [op |-> "execute_full_trade", status |-> "error",
                        info |-> [batch |-> calls[w].batch, why |-> "none", planned |-> TRUE,
                                  worker |-> w]]
       ELSE /\ calls' = [calls EXCEPT
                            ![w].pc = "read",
                            ![w].current = get_latest_positions(positions,
                                                                calls[w].portfolio_id, tbExec)]
            /\ UNCHANGED last

\* last step: the snapshots are computed from the positions read, and the
\* trades and the snapshots are committed
trade_commit(w) ==
    LET call == calls[w]
    IN  /\ call.pc = "read"
        /\ UNCHANGED <<symbols, symbol_prices, allocations, portfolio_stats, budget>>
        /\ trades' = Commit(trades, TradeRecords(call.plan, call.trade_date))
        /\ positions' = Commit(positions,
                               NewPositions(call.portfolio_id, ChangedSymbols(call.plan),
                                            call.plan, call.current, call.trade_date))
        /\ calls' = [calls EXCEPT ![w].pc = "done"]
        /\ last' = [op |-> "execute_full_trade", status |-> "success",
                    info |-> [batch |-> call.batch, why |-> "none", planned |-> TRUE,
                              worker |-> w]]

\* what one execute_full_trade that runs alone leaves of the ledger db =
\* [positions, trades]
execute_alone(db, batch_id, tbPlan, tbExec) ==
    LET allocs == BatchRows(allocations, batch_id)
        pid == allocs[1].portfolio_id
        allocated_at == allocs[1].allocated_at
        trade_date == DateOf(allocated_at)
        upTo == StatsUpTo(portfolio_stats, pid, allocated_at)
        portfolio_balance == portfolio_stats[LatestRow(portfolio_stats, upTo, "first")].portfolio_balance
        latest_positions == get_latest_positions(db.positions, pid, tbPlan)
        total == calculate_positions_value(portfolio_stats, pid, trade_date, "first")
        plan == calculate_trades(allocs, latest_positions, symbol_prices, trade_date, total)
        current == get_latest_positions(db.positions, pid, tbExec)
    IN  IF allocs = <<>> THEN db
        ELSE IF upTo = {} THEN db
        ELSE IF portfolio_balance <= 0 THEN db
        ELSE IF plan = <<>> THEN db
        ELSE [positions |-> Commit(db.positions,
                                   NewPositions(pid, ChangedSymbols(plan), plan, current,
                                                trade_date)),
              trades |-> Commit(db.trades, TradeRecords(plan, trade_date))]

-----------------------------------------------------------------------------
(* update_portfolio_balance: the month replay *)

\* Days of the month (by position in the month) on which the day's transaction
\* raises, as the model injects it; 0 is no failure
FailDayChoices == {0, 5}

\* the latest snapshot of each symbol among those recorded at or before the
\* start of the day
LatestPositionsAsOf(pos, pid, d, tb) ==
    LET rows == {i \in RowsOf(pos, pid) : pos[i].recorded_at <= Midnight(d)}
    IN  [s \in {pos[i].symbol_id : i \in rows} |->
            pos[LatestRow(pos, {i \in rows : pos[i].symbol_id = s}, tb)]]

RECURSIVE PositionsValue(_, _, _, _)
PositionsValue(syms, latest, prices, d) ==
    IF syms = <<>> THEN 0
    ELSE (IF syms[1] \in DOMAIN latest
          THEN get_symbol_price(prices, syms[1], d) * latest[syms[1]].quantity ELSE 0)
         + PositionsValue(Tail(syms), latest, prices, d)

-----------------------------------------------------------------------------
(* calculate_portfolio_metrics and calculate_portfolio_turnover *)

\* The values of alpha, beta, sharpe_ratio, max_drawdown and std_dev.  They are
\* floating-point statistics of a series of returns; a value is kept as what
\* the code fixes of it: exactly zero, not-a-number, of a known sign, or a
\* number the signs of the returns do not fix
MetricValues == {"zero", "nan", "negative", "positive", "unknown"}

ZeroMetrics ==
    [alpha |-> "zero", beta |-> "zero", sharpe_ratio |-> "zero",
     max_drawdown |-> "zero", std_dev |-> "zero"]

BENCHMARK == "SPY"

\* ORDER BY recorded_at over the rows idx of stats: their balances, rows of one
\* recorded_at in the order of the tie-break.  A row is sorted by its key
\* recorded_at * n + (its place among the rows of its recorded_at)
OrderByRecordedAt(stats, idx, tb) ==
    LET n == Len(stats) + 1
        Key(i) == stats[i].recorded_at * n + (IF tb = "first" THEN i ELSE n - i)
        RowOf(key) == IF tb = "first" THEN key % n ELSE n - (key % n)
        rows == SelectSeq([i \in DOMAIN stats |-> i], LAMBDA i : i \in idx)
        ordered == SortSeq([k \in DOMAIN rows |-> Key(rows[k])], LAMBDA a, b : a < b)
    IN  [k \in DOMAIN ordered |-> stats[RowOf(ordered[k])].portfolio_balance]

\* The fallback metrics (no benchmark): alpha and beta 0, and qs.stats.sharpe,
\* qs.stats.max_drawdown and returns.std() of the returns
\* portfolio_series.pct_change() without its NaN and infinite entries.
\* No value is sanitized; Decimal(str(nan)) is Decimal('NaN')
FallbackMetrics(values) ==
    LET kept == {i \in 2..Len(values) : values[i - 1] # 0}
        changes == {IF values[i] > values[i - 1] THEN "up"
                    ELSE IF values[i] < values[i - 1] THEN "down" ELSE "flat" : i \in kept}
        up == "up" \in changes
        down == "down" \in changes
        flat == "flat" \in changes
        \* _prepare_returns reads returns with min >= 0 and max > 1 as prices
        asPrices == ~ down /\ up /\ \E i \in kept : values[i] > 2 * values[i - 1]
        n == Cardinality(kept)
        sharpe == IF asPrices THEN "unknown"
                  ELSE IF n < 2 \/ (~ up /\ ~ down) THEN "nan"
                  ELSE IF up /\ down THEN "unknown"
                  ELSE IF up THEN "positive" ELSE "negative"
        drawdown == IF asPrices THEN "unknown"
                    ELSE IF n = 0 THEN "nan"
                    ELSE IF down THEN "negative" ELSE "zero"
        deviation == IF asPrices THEN "unknown"
                     ELSE IF n < 2 THEN "nan"
                     ELSE IF ~ up /\ ~ down THEN "zero"
                     ELSE IF (up /\ down) \/ flat THEN "positive" ELSE "unknown"
    IN  [alpha |-> "zero", beta |-> "zero", sharpe_ratio |-> sharpe,
         max_drawdown |-> drawdown, std_dev |-> deviation]

\* the recorded_at of the rows idx of stats in increasing order
TimesByRecordedAt(stats, idx) ==
    LET rows == SelectSeq([i \in DOMAIN stats |-> i], LAMBDA i : i \in idx)
    IN  SortSeq([k \in DOMAIN rows |-> stats[rows[k]].recorded_at], LAMBDA a, b : a < b)

\* The metrics against the benchmark, for the balances values recorded at
\* times and the benchmark's price points days of the window.  The returns of
\* both series are pct_change() without the NaN and infinite entries, joined
\* on their timestamps (a price point is dated at the midnight of its day).
\* alpha and beta are NaN when the benchmark's joined returns have variance 0
\* (0 / 0); the other three are computed as in the fallback.  The sanitizing
\* loop assigns to locals()[_name], which does not change a local variable
\* of a function, and round(nan, 3) is nan: a NaN is returned as it is
BenchmarkMetrics(values, times, prices, days) ==
    LET returned == {k \in days : \E j \in days : j < k
                        /\ prices[<<BENCHMARK, Max({j2 \in days : j2 < k})>>] # 0}
        before(k) == prices[<<BENCHMARK, Max({j \in days : j < k})>>]
        aligned == {i \in 2..Len(values) :
                       values[i - 1] # 0 /\ \E k \in returned : times[i] = Midnight(k)}
        joined == {k \in returned : \E i \in aligned : times[i] = Midnight(k)}
        constant == \A j, k \in joined :
                        prices[<<BENCHMARK, j>>] * before(k) = prices[<<BENCHMARK, k>>] * before(j)
        changes == {IF values[i] > values[i - 1] THEN "up"
                    ELSE IF values[i] < values[i - 1] THEN "down" ELSE "flat" : i \in aligned}
        up == "up" \in changes
        down == "down" \in changes
        flat == "flat" \in changes
        asPrices == ~ down /\ up /\ \E i \in aligned : values[i] > 2 * values[i - 1]
        greek == IF constant THEN "nan" ELSE "unknown"
        sharpe == IF asPrices THEN "unknown"
                  ELSE IF ~ up /\ ~ down THEN "nan"
                  ELSE IF up /\ down THEN "unknown"
                  ELSE IF up THEN "positive" ELSE "negative"
        drawdown == IF asPrices THEN "unknown"
                    ELSE IF down THEN "negative" ELSE "zero"
        deviation == IF asPrices THEN "unknown"
                     ELSE IF ~ up /\ ~ down THEN "zero"
                     ELSE IF (up /\ down) \/ flat THEN "positive" ELSE "unknown"
    IN  IF Cardinality(aligned) < 2 THEN ZeroMetrics
        ELSE [alpha |-> greek, beta |-> greek, sharpe_ratio |-> sharpe,
              max_drawdown |-> drawdown, std_dev |-> deviation]

\* metrics computed from whatever rows the window holds
calculate_portfolio_metrics_NoMinimum(stats, prices, pid, d, tb) ==
    LET inWindow == {i \in RowsOf(stats, pid) :
                        stats[i].recorded_at >= Midnight(d - days_lookback)
                        /\ stats[i].recorded_at < Midnight(d + 1)}
    IN  FallbackMetrics(OrderByRecordedAt(stats, inWindow, tb))

\* calculate_portfolio_metrics(session, portfolio_id, end_date)
calculate_portfolio_metrics(stats, prices, pid, d, tb) ==
    LET start_datetime == Midnight(d - days_lookback)
        end_datetime == Midnight(d + 1)
        inWindow == {i \in RowsOf(stats, pid) :
                        stats[i].recorded_at >= start_datetime
                        /\ stats[i].recorded_at < end_datetime}
        benchmark_prices == {k \in DOMAIN prices :
                                k[1] = BENCHMARK /\ k[2] >= d - days_lookback /\ k[2] <= d}
    IN  IF Cardinality(inWindow) < 2 THEN ZeroMetrics
        ELSE IF get_symbol_id(BENCHMARK) = None \/ benchmark_prices = {}
        THEN FallbackMetrics(OrderByRecordedAt(stats, inWindow, tb))
        ELSE BenchmarkMetrics(OrderByRecordedAt(stats, inWindow, tb),
                              TimesByRecordedAt(stats, inWindow), prices,
                              {k[2] : k \in benchmark_prices})

\* a * k = q * D + r with 0 <= r < D, for 0 <= a < D, without a product
\* beyond the width of the integers
RECURSIVE MulDiv(_, _, _)
MulDiv(a, k, D) ==
    IF k = 0 THEN [q |-> 0, r |-> 0]
    ELSE LET h == MulDiv(a, k \div 2, D)
             q2 == 2 * h.q + ((2 * h.r) \div D)
             r2 == (2 * h.r) % D
         IN  IF k % 2 = 0 THEN [q |-> q2, r |-> r2]
             ELSE [q |-> q2 + ((r2 + a) \div D), r |-> (r2 + a) % D]

\* (x.q + x.r / D) * k as a whole part and a remainder over D
MulFrac(x, k, D) ==
    LET p == MulDiv(x.r, k, D) IN [q |-> x.q * k + p.q, r |-> p.r]

AddFrac(x, y, D) == [q |-> x.q + y.q + ((x.r + y.r) \div D), r |-> (x.r + y.r) % D]

\* amount / (total / count) * (365 / lookback_days) in units of 0.00000001, for
\* a Decimal amount >= 0 and whole total > 0: amount * count * 365 * 10^8 /
\* (total * 60), as a whole part q and a remainder r over TurnoverDivisor(total)
TurnoverDivisor(total) == 3 * total
TurnoverRatio(amount, total, count) ==
    LET D == TurnoverDivisor(total)
        n0 == count * 73 * 2500
        x0 == [q |-> n0 \div D, r |-> n0 % D]
    IN  AddFrac(MulFrac(MulFrac(x0, amount[1], D), DecScale, D),
                MulFrac(x0, amount[2], D), D)

\* .quantize(Decimal('0.00000001')): the nearest unit, a half to the even one
Quantize(x, D) ==
    IF 2 * x.r > D \/ (2 * x.r = D /\ x.q % 2 = 1) THEN x.q + 1 ELSE x.q

\* a turnover capped at 1.0
AnnualizedTurnover_Capped(amount, total, count) ==
    LET result == Quantize(TurnoverRatio(amount, total, count), TurnoverDivisor(total))
    IN  IF result > 100000000 THEN 100000000 ELSE result

\* (amount / (total / count) * (365 / lookback_days)).quantize(Decimal('0.00000001')),
\* in units of 0.00000001
AnnualizedTurnover(amount, total, count) ==
    Quantize(TurnoverRatio(amount, total, count), TurnoverDivisor(total))

RECURSIVE TradedValue(_, _, _)
TradedValue(trds, idx, side) ==
    IF idx = {} THEN DecZero
    ELSE LET i == Min(idx)
             value == IF trds[i].trade_type = side
                      THEN DecMulInt(trds[i].quantity, trds[i].price) ELSE DecZero
         IN  DecAdd(value, TradedValue(trds, idx \ {i}, side))

\* the sum of the balances of the rows idx of stats among the rows lo .. hi
RECURSIVE BalanceSum(_, _, _, _)
BalanceSum(stats, idx, lo, hi) ==
    IF hi < lo THEN 0
    ELSE IF hi = lo THEN (IF lo \in idx THEN stats[lo].portfolio_balance ELSE 0)
    ELSE LET mid == (lo + hi) \div 2
         IN  BalanceSum(stats, idx, lo, mid) + BalanceSum(stats, idx, mid + 1, hi)

\* calculate_portfolio_turnover(session, portfolio_id, end_date), in units of
\* 0.00000001
calculate_portfolio_turnover(stats, trds, pos, prices, pid, d, tb) ==
    LET start_datetime == Midnight(d - lookback_days)
        end_datetime == Midnight(d + 1)
        traded == {i \in RowsOf(trds, pid) :
                      trds[i].traded_at >= start_datetime /\ trds[i].traded_at < end_datetime}
        total_buys == TradedValue(trds, traded, BUY)
        total_sells == TradedValue(trds, traded, SELL)
        inWindow == {i \in RowsOf(stats, pid) :
                        stats[i].recorded_at >= start_datetime
                        /\ stats[i].recorded_at < end_datetime}
        held == {i \in RowsOf(pos, pid) : pos[i].recorded_at < end_datetime}
        latest_by_symbol == [s \in {pos[i].symbol_id : i \in held} |->
                                pos[LatestRow(pos, {i \in held : pos[i].symbol_id = s}, tb)]]
        estimated == PositionsValue(SymbolOrder, latest_by_symbol, prices, d)
        total == IF inWindow = {} THEN estimated ELSE BalanceSum(stats, inWindow, 1, Len(stats))
        count == IF inWindow = {} THEN 1 ELSE Cardinality(inWindow)
    IN  IF traded = {} THEN 0
        ELSE IF total = 0 THEN 0
        ELSE AnnualizedTurnover(IF DecLt(total_buys, total_sells) THEN total_sells
                                ELSE total_buys, total, count)

StatRow(pid, d, balance, metrics, sharpe_ratio) ==
    [portfolio_id |-> pid, portfolio_balance |-> balance, recorded_at |-> Midnight(d),
     alpha |-> metrics.alpha, beta |-> metrics.beta,
     max_drawdown |-> metrics.max_drawdown, sharpe_ratio |-> sharpe_ratio,
     std_dev |-> metrics.std_dev, turnover |-> metrics.turnover]

\* the carried values: last_known_alpha, last_known_beta,
\* last_known_max_drawdown, last_known_std_dev and last_known_turnover
KnownMetrics(row) ==
    [alpha |-> row.alpha, beta |-> row.beta, max_drawdown |-> row.max_drawdown,
     std_dev |-> row.std_dev, turnover |-> row.turnover]

\* the values a non-trading day uses where a carried value is None
NoKnownMetrics ==
    [alpha |-> "zero", beta |-> "zero", max_drawdown |-> "zero",
     std_dev |-> "zero", turnover |-> 0]

\* a day's commit that replaces the stats the portfolio has for the day
EmitStat_ReplacesDay(st, pid, d, balance, metrics, sharpe_ratio, trading) ==
    [stats |-> Commit(SelectSeq(st.stats,
                                LAMBDA r : ~ (r.portfolio_id = pid
                                              /\ r.recorded_at = Midnight(d))),
                      <<StatRow(pid, d, balance, metrics, sharpe_ratio)>>),
     last_known_balance |-> <<balance>>,
     last_known_metrics |-> <<metrics>>,
     carried |-> st.carried,
     updates |-> Append(st.updates,
                        [trading_day |-> d, is_trading_day |-> trading,
                         portfolio_balance |-> balance,
                         stat_id |-> Len(st.stats) + 1]),
     errors |-> st.errors]

\* One day of the replay on the replay state st = [stats, last_known_balance,
\* last_known_metrics, updates, errors], where <<>> is None and <<v>> is v:
\* the state after a stat of the day was committed
EmitStat(st, pid, d, balance, metrics, sharpe_ratio, trading) ==
    [stats |-> Commit(st.stats, <<StatRow(pid, d, balance, metrics, sharpe_ratio)>>),
     last_known_balance |-> <<balance>>,
     last_known_metrics |-> <<metrics>>,
     carried |-> st.carried,
     updates |-> Append(st.updates,
                        [trading_day |-> d, is_trading_day |-> trading,
                         portfolio_balance |-> balance,
                         stat_id |-> Len(st.stats) + 1]),
     errors |-> st.errors]

\* the state after the day returned None
SkipDay(st, d) == [st EXCEPT !.errors = Append(@, d)]

\* the non-trading day with a last known balance: the carried values, and
\* sharpe_ratio 0
CarryForward(st, pid, d) ==
    EmitStat(st, pid, d, st.last_known_balance[1],
             IF st.last_known_metrics = <<>> THEN NoKnownMetrics
             ELSE st.last_known_metrics[1],
             "zero", FALSE)

\* a valuation that values a portfolio without positions at 0
ValueDay_EmptyLedgerIsZero(st, pos, trds, prices, pid, d, tb, tbStat) ==
    LET latest == LatestPositionsAsOf(pos, pid, d, tb)
    IN  EmitStat(st, pid, d, PositionsValue(SymbolOrder, latest, prices, d),
                 NoKnownMetrics, "zero", TRUE)

\* the valuation of the day from the ledger, with its metrics and turnover
ValueDay(st, pos, trds, prices, pid, d, tb, tbStat) ==
    LET latest == LatestPositionsAsOf(pos, pid, d, tb)
        total_value == PositionsValue(SymbolOrder, latest, prices, d)
        metrics == calculate_portfolio_metrics(st.stats, prices, pid, d, tbStat)
        turnover == calculate_portfolio_turnover(st.stats, trds, pos, prices, pid, d, tb)
    IN  IF DOMAIN latest = {} THEN SkipDay(st, d)
        ELSE EmitStat(st, pid, d, total_value,
                      [alpha |-> metrics.alpha, beta |-> metrics.beta,
                       max_drawdown |-> metrics.max_drawdown,
                       std_dev |-> metrics.std_dev, turnover |-> turnover],
                      metrics.sharpe_ratio, TRUE)

\* a day's transaction whose failure leaves the day's stat in the table while
\* the day is reported as an error
for_day_KeepsStatOnError(st, pos, trds, prices, pid, d, raises, tb, tbStat) ==
    IF raises
    THEN [st EXCEPT !.errors = Append(@, d),
                    !.stats = Append(@, StatRow(pid, d, 0, NoKnownMetrics, "zero"))]
    ELSE IF ~ is_trading_day(d) /\ st.last_known_balance # <<>>
    THEN CarryForward(st, pid, d)
    ELSE ValueDay(st, pos, trds, prices, pid, d, tb, tbStat)

\* update_portfolio_balance_for_day
update_portfolio_balance_for_day(st, pos, trds, prices, pid, d, raises, tb, tbStat) ==
    IF raises THEN SkipDay(st, d)
    ELSE IF ~ is_trading_day(d) /\ st.last_known_balance # <<>>
    THEN CarryForward(st, pid, d)
    ELSE ValueDay(st, pos, trds, prices, pid, d, tb, tbStat)

\* the values the loop carries from day to day
Carried(st) == [balance |-> st.last_known_balance, metrics |-> st.last_known_metrics]

\* the loop of update_portfolio_balance over all_days, from day i on; carried
\* records what the loop carries after each day
RECURSIVE ReplayDays(_, _, _, _, _, _, _, _, _, _)
ReplayDays(st, days, i, pos, trds, prices, pid, failIdx, tb, tbStat) ==
    IF i > Len(days) THEN st
    ELSE LET day == update_portfolio_balance_for_day(st, pos, trds, prices, pid, days[i],
                                                     i = failIdx, tb, tbStat)
             after == [day EXCEPT !.carried = Append(@, Carried(day))]
         IN  IF after.stats = <<>> \/ after.stats[Len(after.stats)].turnover >= 0
             THEN ReplayDays(after, days, i + 1, pos, trds, prices, pid, failIdx, tb, tbStat)
             ELSE st

update_portfolio_balance(pid, m, failIdx, tbPrev, tbPos) ==
    LET all_days == get_all_days_in_month(m)
        before == {i \in RowsOf(portfolio_stats, pid) :
                      portfolio_stats[i].recorded_at < Midnight(all_days[1])}
        previous_stat == portfolio_stats[LatestRow(portfolio_stats, before, tbPrev)]
        start == [stats |-> portfolio_stats,
                  last_known_balance |->
                      IF before = {} THEN <<>> ELSE <<previous_stat.portfolio_balance>>,
                  last_known_metrics |->
                      IF before = {} THEN <<>> ELSE <<KnownMetrics(previous_stat)>>,
                  carried |-> <<>>, updates |-> <<>>, errors |-> <<>>]
        out == ReplayDays(start, all_days, 1, positions, trades, symbol_prices, pid, failIdx,
                          tbPos, tbPrev)
    IN  /\ UNCHANGED <<symbols, symbol_prices, allocations, positions, trades>>
        /\ IF pid = BadPortfolio
           THEN /\ last' = [op |-> "update_portfolio_balance", status |-> "error",
                            info |-> [portfolio_id |-> pid, month |-> m]]
                /\ UNCHANGED <<portfolio_stats, budget>>
           ELSE /\ budget.replay > 0
                /\ portfolio_stats' = out.stats
                /\ last' = [op |-> "update_portfolio_balance", status |-> "success",
                            info |-> [portfolio_id |-> pid, month |-> m,
                                      days_updated |-> Len(out.updates),
                                      total_days |-> Len(all_days),
                                      errors |-> out.errors, updates |-> out.updates,
                                      carried |-> <<Carried(start)>> \o out.carried,
                                      stats_before |-> Len(portfolio_stats)]]
                /\ budget' = [budget EXCEPT !.replay = @ - 1]

\* update_portfolio_balance whose process stops after the commit of day
\* number k of the month: the stats of the days up to k are in the table, and
\* no result is returned
update_portfolio_balance_stopped(pid, m, k, tbPrev, tbPos) ==
    LET all_days == get_all_days_in_month(m)
        before == {i \in RowsOf(portfolio_stats, pid) :
                      portfolio_stats[i].recorded_at < Midnight(all_days[1])}
        previous_stat == portfolio_stats[LatestRow(portfolio_stats, before, tbPrev)]
        start == [stats |-> portfolio_stats,
                  last_known_balance |->
                      IF before = {} THEN <<>> ELSE <<previous_stat.portfolio_balance>>,
                  last_known_metrics |->
                      IF before = {} THEN <<>> ELSE <<KnownMetrics(previous_stat)>>,
                  carried |-> <<>>, updates |-> <<>>, errors |-> <<>>]
        out == ReplayDays(start, SubSeq(all_days, 1, k), 1, positions, trades, symbol_prices,
                          pid, 0, tbPos, tbPrev)
    IN  /\ UNCHANGED <<symbols, symbol_prices, allocations, positions, trades>>
        /\ budget.replay > 0
        /\ k \in 1..(Len(all_days) - 1)
        /\ portfolio_stats' = out.stats
        /\ last' = [op |-> "update_portfolio_balance", status |-> "stopped",
                    info |-> [portfolio_id |-> pid, month |-> m, days |-> k,
                              stats_before |-> Len(portfolio_stats)]]
        /\ budget' = [budget EXCEPT !.replay = @ - 1]

-----------------------------------------------------------------------------
(* run_backtest: seed, then for each allocation date replay its month,      *)
(* look its batch up and trade it; each step is a call of its own           *)

\* int(date.split('-')[1])
MonthOf(date) == IF date = "2024-02-01" THEN 2 ELSE 1

\* the dates of months from start_month on
FilteredDates(dates, start_month) ==
    SelectSeq(dates, LAMBDA date : MonthOf(date) >= start_month)

\* results.append(...) with the status and the month
Entry(bt, status) ==
    [month |-> MonthOf(bt.filtered_dates[bt.i]), status |-> status]

\* a step of a later month is taken as if the failed one had succeeded
Failed_GoesOn(bt) ==
    [bt EXCEPT !.results = Append(@, Entry(bt, "error")),
               !.i = @ + 1,
               !.pc = IF bt.i < Len(bt.filtered_dates) THEN "replay" ELSE "done"]

\* a step that errors: its entry is appended and the loop is left (break)
Failed(bt) ==
    [bt EXCEPT !.results = Append(@, Entry(bt, "error")), !.pc = "done"]

\* the month was processed: its entry is appended and the loop goes on
MonthDone(bt) ==
    [bt EXCEPT !.results = Append(@, Entry(bt, "success")),
               !.i = @ + 1,
               !.pc = IF bt.i < Len(bt.filtered_dates) THEN "replay" ELSE "done"]

\* the step kind was executed for the current date
Stepped(bt, kind) == [bt EXCEPT !.steps = Append(@, <<kind, bt.i>>)]

\* get_allocation_batch_id_for_date: the batches with a row allocated on the
\* date, of any portfolio
BatchesOn(allocs, date) ==
    {allocs[k].allocation_batch_id :
        k \in {j \in DOMAIN allocs : DateOf(allocs[j].allocated_at) = strptime(date)}}

\* Step 0 and the filter of the dates
run_backtest(pid, dates, start_month, raises) ==
    /\ backtest.pc = "idle"
    /\ ensure_initial_position(pid, raises)
    /\ backtest' =
          IF last'.status = "error"
          THEN [NoBacktest EXCEPT !.pc = "done", !.portfolio_id = pid,
                                  !.results = <<[month |-> 0, status |-> "error"]>>]
          ELSE [NoBacktest EXCEPT
                   !.pc = IF FilteredDates(dates, start_month) = <<>> THEN "done"
                          ELSE "replay",
                   !.portfolio_id = pid,
                   !.filtered_dates = FilteredDates(dates, start_month),
                   !.i = 1]

\* Step 1: update_portfolio_balance_for_month, a request that may not get
\* through (unreachable) and else runs update_portfolio_balance
backtest_update(unreachable, failIdx, tbPrev, tbPos) ==
    /\ backtest.pc = "replay"
    /\ IF unreachable
       THEN /\ backtest' = Failed(backtest)
            /\ UNCHANGED <<symbols, symbol_prices, allocations, positions, trades,
                           portfolio_stats, last, budget>>
       ELSE /\ update_portfolio_balance(backtest.portfolio_id,
                                        MonthOf(backtest.filtered_dates[backtest.i]),
                                        failIdx, tbPrev, tbPos)
            /\ backtest' = IF last'.status = "error" THEN Failed(Stepped(backtest, "replay"))
                           ELSE [Stepped(backtest, "replay") EXCEPT !.pc = "lookup"]

\* Step 2: get_allocation_batch_id_for_date; None when no batch is found and
\* when the query raises
backtest_lookup(raises) ==
    LET found == BatchesOn(allocations, backtest.filtered_dates[backtest.i])
    IN  /\ backtest.pc = "lookup"
        /\ UNCHANGED <<symbols, symbol_prices, allocations, positions, trades,
                       portfolio_stats, last, budget>>
        /\ IF raises \/ found = {}
           THEN backtest' = Failed(backtest)
           ELSE \E b \in found :
                    backtest' = [backtest EXCEPT !.pc = "trade", !.allocation_batch_id = b]

\* Step 3: plan_full_trade, a request that may not get through and else runs
\* execute_full_trade
backtest_trade(unreachable, fail, tbStat, tbValue, tbPlan, tbExec) ==
    /\ backtest.pc = "trade"
    /\ IF unreachable
       THEN /\ backtest' = Failed(backtest)
            /\ UNCHANGED <<symbols, symbol_prices, allocations, positions, trades,
                           portfolio_stats, last, budget>>
       ELSE /\ execute_full_trade(backtest.allocation_batch_id, fail,
                                  tbStat, tbValue, tbPlan, tbExec)
            /\ backtest' = IF last'.status = "error" THEN Failed(Stepped(backtest, "trade"))
                           ELSE MonthDone(Stepped(backtest, "trade"))

\* datetime.now(pst) of update_positions: the clock has passed every snapshot
\* of the table, those of the dated batches and those of earlier calls
now(pos) == 1 + Max({current_time} \cup {pos[i].recorded_at : i \in DOMAIN pos})

\* update_positions with the oversell check removed
update_positions_Oversells(pid, quantity, symbol, trade_type, tb) ==
    LET symbol_id == get_symbol_id(symbol)
        mine == {i \in RowsOf(positions, pid) : positions[i].symbol_id = symbol_id}
        new_quantity == IF mine = {} THEN quantity
                        ELSE IF trade_type = BUY
                        THEN positions[LatestRow(positions, mine, tb)].quantity + quantity
                        ELSE positions[LatestRow(positions, mine, tb)].quantity - quantity
    IN  /\ UNCHANGED <<symbols, symbol_prices, allocations, trades, portfolio_stats, budget>>
        /\ IF symbol_id = None
           THEN /\ last' = [op |-> "update_positions", status |-> "error",
                            info |-> [portfolio_id |-> pid, symbol |-> symbol,
                                      quantity |-> quantity, trade_type |-> trade_type]]
                /\ UNCHANGED positions
           ELSE /\ positions' = Commit(positions,
                                       <<[portfolio_id |-> pid, symbol_id |-> symbol_id,
                                          quantity |-> new_quantity,
                                          recorded_at |-> now(positions)]>>)
                /\ last' = [op |-> "update_positions", status |-> "success",
                            info |-> [portfolio_id |-> pid, symbol |-> symbol,
                                      quantity |-> quantity, trade_type |-> trade_type]]

\* update_positions(portfolio_id, quantity, symbol, trade_type): a new snapshot
\* of the symbol at the current time, holding the latest quantity plus or minus
\* the quantity given; an unknown symbol, a sale of more than is held and a
\* sale of a symbol never held return None and write nothing.  A trade type
\* that is neither Buy nor Sell writes the quantity given.
update_positions(pid, quantity, symbol, trade_type, tb) ==
    LET symbol_id == get_symbol_id(symbol)
        mine == {i \in RowsOf(positions, pid) : positions[i].symbol_id = symbol_id}
        existing_position == positions[LatestRow(positions, mine, tb)]
        rejected == \/ symbol_id = None
                    \/ mine # {} /\ trade_type = SELL /\ existing_position.quantity < quantity
                    \/ mine = {} /\ trade_type = SELL
        new_quantity == IF mine # {} /\ trade_type = BUY
                        THEN existing_position.quantity + quantity
                        ELSE IF mine # {} /\ trade_type = SELL
                        THEN existing_position.quantity - quantity
                        ELSE quantity
    IN  /\ UNCHANGED <<symbols, symbol_prices, allocations, trades, portfolio_stats, budget>>
        /\ IF rejected
           THEN /\ last' = [op |-> "update_positions", status |-> "error",
                            info |-> [portfolio_id |-> pid, symbol |-> symbol,
                                      quantity |-> quantity, trade_type |-> trade_type]]
                /\ UNCHANGED positions
           ELSE /\ positions' = Commit(positions,
                                       <<[portfolio_id |-> pid, symbol_id |-> symbol_id,
                                          quantity |-> new_quantity,
                                          recorded_at |-> now(positions)]>>)
                /\ last' = [op |-> "update_positions", status |-> "success",
                            info |-> [portfolio_id |-> pid, symbol |-> symbol,
                                      quantity |-> quantity, trade_type |-> trade_type]]

-----------------------------------------------------------------------------
(* Specifications.  Each runs the same operations from the empty database;  *)
(* they differ in the inputs offered and in how many operations they run.   *)

Seed ==
    /\ \E pid \in Portfolios : ensure_initial_position(pid, FALSE)
    /\ UNCHANGED <<backtest, calls>>

\* seeding with the calls that fail
SeedOrFail ==
    /\ \E pid \in PortfolioInputs, raises \in BOOLEAN : ensure_initial_position(pid, raises)
    /\ UNCHANGED <<backtest, calls>>

AddTradeBatch ==
    /\ \E pid \in Portfolios, d \in AllocDates, dict \in TradeDicts :
           \E r \in SumRoundings(dict) : add_allocations(pid, d, dict, r)
    /\ UNCHANGED <<backtest, calls>>

AddReplayBatch ==
    /\ \E pid \in Portfolios, b \in ReplayBatches :
           \E r \in SumRoundings(b[2]) : add_allocations(pid, b[1], b[2], r)
    /\ UNCHANGED <<backtest, calls>>

AddAnyBatch ==
    /\ \E pid \in PortfolioInputs, d \in DateInputs, dict \in AllocDicts :
           \E r \in SumRoundings(dict) : add_allocations(pid, d, dict, r)
    /\ UNCHANGED <<backtest, calls>>

Execute ==
    /\ \E b \in 1..MaxBatches, fail \in FailPoints,
          tbStat \in StatTieBreaks(portfolio_stats), tbValue \in StatTieBreaks(portfolio_stats),
          tbPlan \in PositionTieBreaks(positions), tbExec \in PositionTieBreaks(positions) :
           execute_full_trade(b, fail, tbStat, tbValue, tbPlan, tbExec)
    /\ UNCHANGED <<backtest, calls>>

ExecuteNoFailure ==
    /\ \E b \in 1..MaxBatches,
          tbStat \in StatTieBreaks(portfolio_stats), tbValue \in StatTieBreaks(portfolio_stats),
          tbPlan \in PositionTieBreaks(positions), tbExec \in PositionTieBreaks(positions) :
           execute_full_trade(b, "none", tbStat, tbValue, tbPlan, tbExec)
    /\ UNCHANGED <<backtest, calls>>

Replay ==
    /\ \E pid \in PortfolioInputs, m \in 1..MaxMonth, failIdx \in FailDayChoices,
          tbPrev \in StatTieBreaks(portfolio_stats), tbPos \in PositionTieBreaks(positions) :
           update_portfolio_balance(pid, m, failIdx, tbPrev, tbPos)
    /\ UNCHANGED <<backtest, calls>>

\* The whole engine
Next == Seed \/ AddTradeBatch \/ Execute \/ Replay
Spec == Init /\ [][Next]_vars

\* A portfolio that starts in the course of January, and its replays
AddPortfolio ==
    /\ \E pid \in Portfolios, date \in StartInputs : add_portfolio(pid, date)
    /\ UNCHANGED <<backtest, calls>>
InitStart ==
    InitFrom(ReplayPriceScenarios,
             [batch |-> 0, exec |-> 0, replay |-> MaxReplays, seed |-> 0, create |-> 1])
NextStart == AddPortfolio \/ Replay
SpecStart == InitStart /\ [][NextStart]_vars

\* Seeding again: a portfolio that is seeded, traded, replayed and seeded
\* once more
InitSeed ==
    InitFrom(ReplayPriceScenarios,
             [batch |-> 1, exec |-> 1, replay |-> 1, seed |-> MaxReseeds, create |-> 0])
NextSeed == SeedOrFail \/ AddReplayBatch \/ ExecuteNoFailure \/ Replay
SpecSeed == InitSeed /\ [][NextSeed]_vars

\* A backtest, with the batches posted before it and while it runs
AddBacktestBatch ==
    /\ \E pid \in Portfolios, b \in BacktestBatches :
           \E r \in SumRoundings(b[2]) : add_allocations(pid, b[1], b[2], r)
    /\ UNCHANGED <<backtest, calls>>
RunBacktest ==
    /\ \E pid \in PortfolioInputs, dates \in BacktestDateLists, start_month \in 1..MaxMonth,
          raises \in BOOLEAN :
           run_backtest(pid, dates, start_month, raises)
    /\ UNCHANGED calls
BacktestUpdate ==
    /\ \E unreachable \in BOOLEAN, failIdx \in FailDayChoices,
          tbPrev \in StatTieBreaks(portfolio_stats), tbPos \in PositionTieBreaks(positions) :
           backtest_update(unreachable, failIdx, tbPrev, tbPos)
    /\ UNCHANGED calls
BacktestLookup ==
    /\ \E raises \in BOOLEAN : backtest_lookup(raises)
    /\ UNCHANGED calls
BacktestTrade ==
    /\ \E unreachable \in BOOLEAN, fail \in FailPoints,
          tbStat \in StatTieBreaks(portfolio_stats), tbValue \in StatTieBreaks(portfolio_stats),
          tbPlan \in PositionTieBreaks(positions), tbExec \in PositionTieBreaks(positions) :
           backtest_trade(unreachable, fail, tbStat, tbValue, tbPlan, tbExec)
    /\ UNCHANGED calls
InitBacktest ==
    InitFrom(ReplayPriceScenarios,
             [batch |-> MaxBatches, exec |-> MaxExecs, replay |-> MaxReplays,
              seed |-> MaxSeeds, create |-> 0])
NextBacktest ==
    AddBacktestBatch \/ RunBacktest \/ BacktestUpdate \/ BacktestLookup \/ BacktestTrade
SpecBacktest == InitBacktest /\ [][NextBacktest]_vars

\* Price lookups over the price tables
Quote ==
    /\ \E symbol_id \in Tickers, d \in 0..MaxQuoteDay :
           last' = [op |-> "get_symbol_price", status |-> "success",
                    info |-> [symbol_id |-> symbol_id, price_date |-> d,
                              price |-> get_symbol_price(symbol_prices, symbol_id, d)]]
    /\ UNCHANGED <<symbols, symbol_prices, allocations, positions, trades, portfolio_stats,
                   budget, backtest, calls>>
InitPrice ==
    InitWith([batch |-> 0, exec |-> 0, replay |-> 0, seed |-> 0, create |-> 0])
NextPrice == Quote
SpecPrice == InitPrice /\ [][NextPrice]_vars

\* calculate_portfolio_turnover on tables drawn from the rows the writers of the
\* trades, portfolio_stats and positions tables leave: no trade, one buy, a buy
\* of a fractional quantity, a buy of 1 unit, buys and sells on two days; no
\* stat, the seed stat, daily stats, stats of balance 0; no position, the seed
\* position, a position in B (which has no price in two of the price tables)
TurnoverTrade(d, side, quantity, price) ==
    [portfolio_id |-> "P1", symbol_id |-> "A", traded_at |-> MarketClose(d),
     trade_type |-> side, order_type |-> ORDER_TYPE, price |-> price,
     quantity |-> quantity, reason |-> REASON]
TurnoverTrades ==
    { <<>>,
      <<TurnoverTrade(2, BUY, Dec(500000), 2)>>,
      <<TurnoverTrade(4, BUY, <<333333, 3333>>, 3)>>,
      <<TurnoverTrade(2, BUY, Dec(1), 1)>>,
      <<TurnoverTrade(2, SELL, Dec(250000), 2), TurnoverTrade(2, BUY, Dec(100000), 3),
        TurnoverTrade(4, SELL, Dec(100000), 1)>> }
TurnoverStat(d, balance) ==
    StatRow("P1", d, balance, NoKnownMetrics, "zero")
TurnoverStats ==
    { <<>>,
      <<SeedStat("P1")>>,
      <<SeedStat("P1"), TurnoverStat(2, 999999), TurnoverStat(3, 750000)>>,
      <<TurnoverStat(1, 0), TurnoverStat(2, 0)>>,
      <<TurnoverStat(2, 900000), TurnoverStat(3, 0), TurnoverStat(4, 0)>> }
TurnoverPositions ==
    { <<>>,
      <<SeedPosition("P1")>>,
      <<SeedPosition("P1"),
        [portfolio_id |-> "P1", symbol_id |-> MONEY_MARKET, quantity |-> 0,
         recorded_at |-> MarketClose(2)],
        [portfolio_id |-> "P1", symbol_id |-> "B", quantity |-> 250000,
         recorded_at |-> MarketClose(2)]>> }
\* end dates around the trades of days 2 and 4 and 60 days later
TurnoverDays == {1, 2, 4, 62, 63, 65}

Turnover ==
    /\ \E d \in TurnoverDays, tb \in PositionTieBreaks(positions) :
           last' = [op |-> "calculate_portfolio_turnover", status |-> "success",
                    info |-> [portfolio_id |-> "P1", end_date |-> d,
                              turnover |-> calculate_portfolio_turnover(
                                  portfolio_stats, trades, positions, symbol_prices,
                                  "P1", d, tb)]]
    /\ UNCHANGED <<symbols, symbol_prices, allocations, positions, trades, portfolio_stats,
                   budget, backtest, calls>>
InitTurnover ==
    /\ symbols = Symbols
    /\ symbol_prices \in PriceScenarios
    /\ allocations = <<>>
    /\ positions \in TurnoverPositions
    /\ trades \in TurnoverTrades
    /\ portfolio_stats \in TurnoverStats
    /\ last = NoLast
    /\ budget = [batch |-> 0, exec |-> 0, replay |-> 0, seed |-> 0, create |-> 0]
    /\ backtest = NoBacktest
    /\ calls = NoCalls
NextTurnover == Turnover
SpecTurnover == InitTurnover /\ [][NextTurnover]_vars

\* calculate_portfolio_metrics on drawn tables: a symbols table with and
\* without the benchmark; no benchmark price, two price points, four that
\* vary and four that do not; no stat, the seed stat, two stats, and four
\* daily stats whose balances are flat, rise, or fall and rise
MetricSymbols == {Symbols, Symbols \cup {BENCHMARK}}
BenchmarkScenarios ==
    { PriceTable({<<"A", 1, 2>>}),
      PriceTable({<<BENCHMARK, 1, 400>>, <<BENCHMARK, 2, 404>>}),
      PriceTable({<<BENCHMARK, 1, 400>>, <<BENCHMARK, 2, 404>>, <<BENCHMARK, 3, 400>>,
                  <<BENCHMARK, 4, 410>>}),
      PriceTable({<<BENCHMARK, 1, 400>>, <<BENCHMARK, 2, 400>>, <<BENCHMARK, 3, 400>>,
                  <<BENCHMARK, 4, 400>>}) }
MetricStats ==
    { <<>>,
      <<SeedStat("P1")>>,
      <<SeedStat("P1"), TurnoverStat(2, 900000)>>,
      <<SeedStat("P1"), TurnoverStat(2, 1000000), TurnoverStat(3, 1000000),
        TurnoverStat(4, 1000000)>>,
      <<SeedStat("P1"), TurnoverStat(2, 1100000), TurnoverStat(3, 1200000),
        TurnoverStat(4, 1200000)>>,
      <<SeedStat("P1"), TurnoverStat(2, 999999), TurnoverStat(3, 666666),
        TurnoverStat(4, 700000)>> }
\* end dates: the first day, the fourth, and 90 days after the second
MetricDays == {1, 4, 92, 93}

Metrics ==
    /\ \E d \in MetricDays, tb \in StatTieBreaks(portfolio_stats) :
           last' = [op |-> "calculate_portfolio_metrics", status |-> "success",
                    info |-> [portfolio_id |-> "P1", end_date |-> d,
                              metrics |-> calculate_portfolio_metrics(
                                  portfolio_stats, symbol_prices, "P1", d, tb)]]
    /\ UNCHANGED <<symbols, symbol_prices, allocations, positions, trades,
                   portfolio_stats, budget, backtest, calls>>
InitMetrics ==
    /\ symbols \in MetricSymbols
    /\ symbol_prices \in BenchmarkScenarios
    /\ allocations = <<>>
    /\ positions = <<>>
    /\ trades = <<>>
    /\ portfolio_stats \in MetricStats
    /\ last = NoLast
    /\ budget = [batch |-> 0, exec |-> 0, replay |-> 0, seed |-> 0, create |-> 0]
    /\ backtest = NoBacktest
    /\ calls = NoCalls
NextMetrics == Metrics
SpecMetrics == InitMetrics /\ [][NextMetrics]_vars

\* The planner and the executor: seeding, batches and executions
InitTrade ==
    InitWith([batch |-> MaxBatches, exec |-> MaxExecs, replay |-> 0, seed |-> MaxSeeds, create |-> 0])
NextTrade == Seed \/ AddTradeBatch \/ Execute
SpecTrade == InitTrade /\ [][NextTrade]_vars

\* Manual position updates next to the planner: seeding, one batch, its
\* execution, and purchases and sales of whole shares
LedgerScenarios == { PriceTable({<<"A", 1, 2>>, <<"B", 1, 4>>}) }
TradeTypes == {BUY, SELL}
UpdateQuantities == {1, 2000000}
AddLedgerBatch ==
    /\ \E pid \in Portfolios, b \in ReplayBatches :
           \E r \in SumRoundings(b[2]) : add_allocations(pid, b[1], b[2], r)
    /\ UNCHANGED <<backtest, calls>>
UpdatePositions ==
    /\ Cardinality({i \in DOMAIN positions : positions[i].recorded_at > current_time}) < MaxUpdates
    /\ \E pid \in Portfolios, quantity \in UpdateQuantities, symbol \in Tickers,
          trade_type \in TradeTypes, tb \in PositionTieBreaks(positions) :
           update_positions(pid, quantity, symbol, trade_type, tb)
    /\ UNCHANGED <<backtest, calls>>
InitLedger ==
    InitFrom(LedgerScenarios,
             [batch |-> 1, exec |-> 1, replay |-> 0, seed |-> MaxSeeds, create |-> 0])
NextLedger == Seed \/ AddLedgerBatch \/ ExecuteNoFailure \/ UpdatePositions
SpecLedger == InitLedger /\ [][NextLedger]_vars

\* A backtest of one portfolio in a database that holds a second portfolio,
\* seeded and with batches of its own on the same dates
IsolationScenarios == { PriceTable({<<"A", 1, 2>>, <<"A", 3, 1>>, <<"B", 1, 4>>, <<"B", 3, 8>>}) }
SeedOther ==
    /\ ensure_initial_position(OtherPortfolio, FALSE)
    /\ UNCHANGED <<backtest, calls>>
AddOtherBatch ==
    /\ \E b \in BacktestBatches :
           \E r \in SumRoundings(b[2]) : add_allocations(OtherPortfolio, b[1], b[2], r)
    /\ UNCHANGED <<backtest, calls>>
InitIsolation ==
    InitFrom(IsolationScenarios,
             [batch |-> MaxBatches, exec |-> 1, replay |-> 1, seed |-> 2, create |-> 0])
NextIsolation ==
    \/ SeedOther \/ AddOtherBatch \/ AddBacktestBatch
    \/ RunBacktest \/ BacktestUpdate \/ BacktestLookup \/ BacktestTrade
SpecIsolation == InitIsolation /\ [][NextIsolation]_vars

\* A replay that stops in the middle of the month, and the replays run after it
StopDays == {3, 10}
ReplayStopped ==
    /\ \E pid \in Portfolios, m \in 1..MaxMonth, k \in StopDays,
          tbPrev \in StatTieBreaks(portfolio_stats), tbPos \in PositionTieBreaks(positions) :
           update_portfolio_balance_stopped(pid, m, k, tbPrev, tbPos)
    /\ UNCHANGED <<backtest, calls>>
ReplayWhole ==
    /\ \E pid \in Portfolios, m \in 1..MaxMonth,
          tbPrev \in StatTieBreaks(portfolio_stats), tbPos \in PositionTieBreaks(positions) :
           update_portfolio_balance(pid, m, 0, tbPrev, tbPos)
    /\ UNCHANGED <<backtest, calls>>
InitStopped ==
    InitFrom(IsolationScenarios,
             [batch |-> 1, exec |-> 1, replay |-> MaxReplays, seed |-> MaxSeeds, create |-> 0])
NextStopped == Seed \/ AddReplayBatch \/ ExecuteNoFailure \/ ReplayStopped \/ ReplayWhole
SpecStopped == InitStopped /\ [][NextStopped]_vars

\* Two requests of execute_full_trade served side by side, on a seeded
\* portfolio with its batches
AllIdle == \A w \in Workers : calls[w].pc = "idle"
SeedFirst == AllIdle /\ Seed
AddBatchFirst == AllIdle /\ AddReplayBatch
TradeStart ==
    /\ \E w \in Workers, b \in 1..MaxBatches,
          tbStat \in StatTieBreaks(portfolio_stats), tbValue \in StatTieBreaks(portfolio_stats),
          tbPlan \in PositionTieBreaks(positions) :
           trade_start(w, b, tbStat, tbValue, tbPlan)
    /\ UNCHANGED backtest
TradeRead ==
    /\ \E w \in Workers, tbExec \in PositionTieBreaks(positions) : trade_read(w, tbExec)
    /\ UNCHANGED backtest
TradeCommit ==
    /\ \E w \in Workers : trade_commit(w)
    /\ UNCHANGED backtest
InitWorkers ==
    InitFrom(IsolationScenarios,
             [batch |-> MaxBatches, exec |-> MaxExecs, replay |-> 0, seed |-> MaxSeeds,
              create |-> 0])
NextWorkers == SeedFirst \/ AddBatchFirst \/ TradeStart \/ TradeRead \/ TradeCommit
SpecWorkers == InitWorkers /\ [][NextWorkers]_vars

\* The allocation batch writer on all its inputs
NextAlloc == AddAnyBatch
SpecAlloc == InitTrade /\ [][NextAlloc]_vars

\* The month replay: seeding, one rebalance at most, replays
InitReplay ==
    InitFrom(ReplayPriceScenarios,
             [batch |-> 1, exec |-> 1, replay |-> MaxReplays, seed |-> MaxSeeds, create |-> 0])
NextReplay == Seed \/ AddReplayBatch \/ ExecuteNoFailure \/ Replay
SpecReplay == InitReplay /\ [][NextReplay]_vars

-----------------------------------------------------------------------------
(* Properties of the allocation batch writer *)

KnownTickers(dict) == \A i \in DOMAIN dict : dict[i][1] \in Symbols

AddedWith == last.info.given

C6_RejectedBatchWritesNothing ==
    [][(last'.op = "add_allocations" /\ last'.status = "rejected")
         => allocations' = allocations]_vars

C6_Witness ==
    /\ last.op = "add_allocations"
    /\ last.status = "rejected"
    /\ last.info.why = "symbol"
    /\ FirstUnknown(AddedWith.allocations) > 1
    /\ allocations # <<>>

-----------------------------------------------------------------------------
(* Properties of the planner and the executor *)

Executed == last.op = "execute_full_trade"
Planned == Executed /\ last.info.planned
Succeeded == Executed /\ last.status = "success"

SideValue(plan, side) == TotalValue(SelectSeq(plan, LAMBDA t : t.trade_type = side))

\* the rows of the latest snapshot of a symbol: one row unless recorded_at ties
LatestSnapshots(pid, s) ==
    LET rows == {i \in RowsOf(positions, pid) : positions[i].symbol_id = s}
    IN  {i \in rows : \A j \in rows : positions[j].recorded_at <= positions[i].recorded_at}

\* C1: in every plan the value of the Buy intents, the balancing MONEY_MARKET
\* intent included, equals the value of the Sell intents within less than 100
\* units of currency (a rounding of 0.0001 share is worth far less)
C1_ConservationLaw ==
    Planned =>
        LET surplus == DecSub(SideValue(last.info.plan, BUY), SideValue(last.info.plan, SELL))
        IN  DecLt(<<0 - 100, 0>>, surplus) /\ DecLt(surplus, <<100, 0>>)

\* C2: after a successful execution every allocated symbol with a nonzero
\* price is held at its target quantity, and every other symbol held before,
\* MONEY_MARKET excepted, is held at quantity 0
C2_HoldingsAtTarget ==
    Succeeded =>
        /\ \A s \in DOMAIN last.info.targets :
              \A i \in LatestSnapshots(last.info.portfolio_id, s) :
                  Dec(positions[i].quantity) = last.info.targets[s].target_quantity
        /\ \A s \in last.info.held \ (last.info.allocated \cup {MONEY_MARKET}) :
              \A i \in LatestSnapshots(last.info.portfolio_id, s) :
                  positions[i].quantity = 0

\* C3: a successful execution writes exactly one new snapshot per symbol of the
\* intents, whose quantity is the prior quantity plus the net signed quantity
\* of the symbol's intents, fractions included
C3_OneExactSnapshotPerSymbol ==
    Succeeded =>
        \A s \in Range(ChangedSymbols(last.info.plan)) :
            LET new == {i \in (last.info.positions_before + 1)..Len(positions) :
                           positions[i].symbol_id = s}
                prior == IF s \in DOMAIN last.info.prior THEN last.info.prior[s] ELSE 0
            IN  /\ Cardinality(new) = 1
                /\ \A i \in new :
                      Dec(positions[i].quantity)
                          = DecAdd(Dec(prior), PositionChange(last.info.plan, s))

C7_NoBatchOrNoStatIsAnError ==
    [][(/\ last'.op = "execute_full_trade"
        /\ LET rows == {i \in DOMAIN allocations :
                           allocations[i].allocation_batch_id = last'.info.batch}
           IN  \/ rows = {}
               \/ \A i \in DOMAIN portfolio_stats :
                     portfolio_stats[i].portfolio_id = allocations[Min(rows)].portfolio_id
                        => portfolio_stats[i].recorded_at > allocations[Min(rows)].allocated_at)
         => /\ last'.status = "error"
            /\ trades' = trades
            /\ positions' = positions]_vars

C7_Witness ==
    /\ Executed
    /\ last.status = "error"
    /\ last.info.why = "no stats"
    /\ portfolio_stats # <<>>
    /\ positions # <<>>

\* C8: an execution of a non-empty batch of a portfolio with a positive total
\* value, in which nothing fails, returns success, also when no trade is needed
C8_ExecutionSucceeds ==
    (Planned /\ last.info.why = "none") => last.status = "success"

-----------------------------------------------------------------------------
(* Properties of the month replay *)

Replayed == last.op = "update_portfolio_balance" /\ last.status = "success"

\* the stat rows the last replay added that are dated at the start of day d
EmittedFor(d) ==
    {i \in (last.info.stats_before + 1)..Len(portfolio_stats) :
        /\ portfolio_stats[i].portfolio_id = last.info.portfolio_id
        /\ portfolio_stats[i].recorded_at = Midnight(d)}

ListedAsError(d) == \E k \in DOMAIN last.info.errors : last.info.errors[k] = d

C10_OneStatPerPortfolioDay ==
    \A i, j \in DOMAIN portfolio_stats :
        (/\ i # j
         /\ portfolio_stats[i].portfolio_id = portfolio_stats[j].portfolio_id)
        => DateOf(portfolio_stats[i].recorded_at) # DateOf(portfolio_stats[j].recorded_at)

-----------------------------------------------------------------------------
(* Properties of the carried values and of the metrics *)

\* two metric values that the model does not know to differ
MayBeEqual(a, b) == a = b \/ a = "unknown" \/ b = "unknown"

\* the stat rows a and b agree in every value field
SameStat(a, b) ==
    /\ a.portfolio_balance = b.portfolio_balance
    /\ a.turnover = b.turnover
    /\ MayBeEqual(a.alpha, b.alpha) /\ MayBeEqual(a.beta, b.beta)
    /\ MayBeEqual(a.max_drawdown, b.max_drawdown)
    /\ MayBeEqual(a.sharpe_ratio, b.sharpe_ratio)
    /\ MayBeEqual(a.std_dev, b.std_dev)

SameValues(i, j) == SameStat(portfolio_stats[i], portfolio_stats[j])

\* the Friday before the Saturday or Sunday d
FridayBefore(d) == d - (Weekday(d) - 4)

\* C11: in a month replay, the stat emitted for a Saturday or a Sunday equals
\* the stat emitted for the preceding Friday in portfolio_balance, alpha, beta,
\* max_drawdown, sharpe_ratio, std_dev and turnover
C11_WeekendEqualsFriday ==
    Replayed =>
        LET days == get_all_days_in_month(last.info.month)
        IN  \A k \in DOMAIN days :
                (~ is_trading_day(days[k]) /\ FridayBefore(days[k]) >= days[1])
                => \A i \in EmittedFor(days[k]), j \in EmittedFor(FridayBefore(days[k])) :
                       SameValues(i, j)

\* the rows of stats that a query for the latest stat of the portfolio on the
\* date d may return
LatestOfDay(stats, pid, d) ==
    LET rows == {i \in RowsOf(stats, pid) : DateOf(stats[i].recorded_at) = d}
    IN  {i \in rows : \A j \in rows : stats[j].recorded_at <= stats[i].recorded_at}

\* a replay of a month that follows a replay of the same month of the same
\* portfolio, with the same days in error
SecondReplay ==
    /\ Replayed /\ Replayed'
    /\ last'.info.portfolio_id = last.info.portfolio_id
    /\ last'.info.month = last.info.month
    /\ last'.info.errors = last.info.errors

\* C12: a second replay of a month, with positions, trades and prices
\* unchanged, emits for every day a stat with the balance and the metrics of
\* the first replay's stat of the day, and the latest stat of every day is
\* what it was before the second replay
C12_SecondReplayStep ==
    SecondReplay =>
        LET days == get_all_days_in_month(last.info.month)
            pid == last.info.portfolio_id
            first == (last.info.stats_before + 1)..Len(portfolio_stats)
            second == (last'.info.stats_before + 1)..Len(portfolio_stats')
        IN  \A k \in DOMAIN days :
                /\ \A i \in first, j \in second :
                       (/\ portfolio_stats[i].recorded_at = Midnight(days[k])
                        /\ portfolio_stats'[j].recorded_at = Midnight(days[k]))
                       => SameStat(portfolio_stats[i], portfolio_stats'[j])
                /\ \A j \in LatestOfDay(portfolio_stats', pid, days[k]) :
                       \E i \in LatestOfDay(portfolio_stats, pid, days[k]) :
                           SameStat(portfolio_stats[i], portfolio_stats'[j])

C12_ReplayIsIdempotent == [][C12_SecondReplayStep]_vars

-----------------------------------------------------------------------------
(* Properties of days without positions *)

\* the portfolio of the last replay has no position snapshot at or before the
\* day d
NoPositionBy(d) ==
    \A i \in RowsOf(positions, last.info.portfolio_id) :
        DateOf(positions[i].recorded_at) > d

\* C13: for a day, trading or not, on which the portfolio has no position
\* snapshot at or before the day, the replay emits no stat, lists the day in
\* errors, leaves the carried balance and metrics as they were, and goes on to
\* the next day, so that every later day has a stat or is listed
C13_NoPositionDayIsSkipped ==
    Replayed =>
        LET days == get_all_days_in_month(last.info.month)
        IN  \A k \in DOMAIN days :
                NoPositionBy(days[k])
                => /\ EmittedFor(days[k]) = {}
                   /\ ListedAsError(days[k])
                   /\ last.info.carried[k + 1] = last.info.carried[k]
                   /\ \A j \in (k + 1)..Len(days) :
                          EmittedFor(days[j]) # {} \/ ListedAsError(days[j])

C13_Witness ==
    /\ Replayed
    /\ \E d \in Range(get_all_days_in_month(last.info.month)) :
           NoPositionBy(d) /\ is_trading_day(d)
    /\ \E d \in Range(get_all_days_in_month(last.info.month)) :
           /\ NoPositionBy(d) /\ ~ is_trading_day(d)
           /\ \E e \in Range(get_all_days_in_month(last.info.month)) :
                  e > d /\ EmittedFor(e) # {}

-----------------------------------------------------------------------------
(* Properties of the seeding *)

Seeded == last.op = "ensure_initial_position" /\ last.status = "success"

\* the rows of the portfolio pid after a successful seeding: one position of
\* 1,000,000 MONEY_MARKET and one stat of 1,000,000 with all metrics 0, both
\* at 2024-01-01 00:00, and no trade
SeedState(pid) ==
    /\ SelectSeq(positions, LAMBDA r : r.portfolio_id = pid) =
           <<[portfolio_id |-> pid, symbol_id |-> MONEY_MARKET, quantity |-> 1000000,
              recorded_at |-> 2]>>
    /\ SelectSeq(portfolio_stats, LAMBDA r : r.portfolio_id = pid) =
           <<[portfolio_id |-> pid, portfolio_balance |-> 1000000, recorded_at |-> 2,
              alpha |-> "zero", beta |-> "zero", max_drawdown |-> "zero",
              sharpe_ratio |-> "zero", std_dev |-> "zero", turnover |-> 0]>>
    /\ SelectSeq(trades, LAMBDA r : r.portfolio_id = pid) = <<>>

\* a call of ensure_initial_position that returns False
SeedFails ==
    last'.op = "ensure_initial_position" /\ last'.status = "error"

\* C15: after ensure_initial_position(P) succeeds, whatever the state before,
\* P has exactly one position (1,000,000 MONEY_MARKET at the start date), one
\* stat (balance 1,000,000, all metrics 0, same date) and no trade, so that a
\* second call yields the same rows; a call that fails leaves the rows as
\* they were
C15_SeedingIsAReset ==
    /\ [](Seeded => SeedState(last.info[1]))
    /\ [][SeedFails => /\ positions' = positions
                       /\ portfolio_stats' = portfolio_stats
                       /\ trades' = trades]_vars

\* a second seeding of a portfolio that had been traded and replayed
C15_Witness ==
    /\ Seeded
    /\ budget.seed = 0 /\ budget.exec = 0 /\ budget.replay = 0
    /\ \E i \in DOMAIN allocations : allocations[i].portfolio_id = last.info[1]

-----------------------------------------------------------------------------
(* Properties of run_backtest *)

\* s is the start of t
IsPrefix(s, t) == Len(s) <= Len(t) /\ SubSeq(t, 1, Len(s)) = s

\* what the run has returned so far and what it has executed: every entry but
\* the last is a success, the entries are those of the filtered dates in their
\* order, and once an entry is an error the run is over and has executed no
\* step of a later date
StopsAtFirstFailure ==
    LET results == backtest.results
        n == Len(results)
    IN  /\ \A k \in 1..(n - 1) : results[k].status = "success"
        /\ \A k \in 1..n :
               IF backtest.filtered_dates = <<>> THEN results[k].month = 0 /\ n = 1
               ELSE results[k].month = MonthOf(backtest.filtered_dates[k])
        /\ \A k \in DOMAIN backtest.steps :
               /\ backtest.steps[k][2] <= n + 1
               /\ k > 1 => backtest.steps[k - 1][2] <= backtest.steps[k][2]
        /\ (n > 0 /\ results[n].status = "error")
           => /\ backtest.pc = "done"
              /\ \A k \in DOMAIN backtest.steps : backtest.steps[k][2] <= n

\* a step of the run after its seeding keeps every row of the ledger, of the
\* trades and of the stats, and a run that is over takes no step
KeepsCommittedRows ==
    /\ (backtest.pc # "idle" /\ backtest' # backtest)
       => /\ IsPrefix(positions, positions')
          /\ IsPrefix(trades, trades')
          /\ IsPrefix(portfolio_stats, portfolio_stats')
    /\ backtest.pc = "done"
       => /\ backtest' = backtest
          /\ UNCHANGED <<positions, trades, portfolio_stats>>

\* C14: run_backtest processes the filtered dates in their order and stops at
\* the first failing step (replay, batch lookup or trade): every entry of the
\* result but the last is a success, no replay or trade is executed for a date
\* after the failing one, and the rows committed for the earlier dates remain
C14_BacktestStopsAtFirstFailure ==
    /\ []StopsAtFirstFailure
    /\ [][KeepsCommittedRows]_vars

\* a run whose first date succeeded, with its trades in the table, and whose
\* second date failed
C14_Witness ==
    /\ backtest.pc = "done"
    /\ Len(backtest.results) = 2
    /\ backtest.results[1].status = "success"
    /\ backtest.results[2].status = "error"
    /\ trades # <<>>

-----------------------------------------------------------------------------
(* Properties of the price lookup *)

Quoted == last.op = "get_symbol_price"

\* the days of the price points of the quoted symbol at or before the quoted
\* date
PointsUpTo ==
    {k[2] : k \in {q \in DOMAIN symbol_prices :
                      q[1] = last.info.symbol_id /\ q[2] <= last.info.price_date}}

\* C16: get_symbol_price returns 1 for MONEY_MARKET on every date; else the
\* price of the point dated on the date; else the price of the latest point
\* before it; else 0.  It returns no price of a later point, and 0 when the
\* symbol has no point at or before the date
C16_PriceAtOrBefore ==
    Quoted =>
        IF last.info.symbol_id = MONEY_MARKET THEN last.info.price = 1
        ELSE IF PointsUpTo = {} THEN last.info.price = 0
        ELSE \E day \in PointsUpTo :
                 /\ \A other \in PointsUpTo : other <= day
                 /\ last.info.price = symbol_prices[<<last.info.symbol_id, day>>]

\* a date between two price points of the symbol, neither on the date
C16_Witness ==
    /\ Quoted
    /\ PointsUpTo # {}
    /\ last.info.price_date \notin PointsUpTo
    /\ \E q \in DOMAIN symbol_prices :
           /\ q[1] = last.info.symbol_id /\ q[2] > last.info.price_date
           /\ symbol_prices[q] # last.info.price

-----------------------------------------------------------------------------
(* Properties of the metrics and of the turnover *)

\* the stat rows of the replayed portfolio that calculate_portfolio_metrics or
\* calculate_portfolio_turnover found in its window of days days up to the
\* day d, when the stat of row i was computed
RowsInWindow(i, d, days) ==
    {j \in 1..(i - 1) :
        /\ portfolio_stats[j].portfolio_id = last.info.portfolio_id
        /\ DateOf(portfolio_stats[j].recorded_at) >= d - days
        /\ DateOf(portfolio_stats[j].recorded_at) <= d}

\* the stats the last replay computed on trading days, as <<row, day>>
Valued ==
    {<<last.info.updates[k].stat_id, last.info.updates[k].trading_day>> :
        k \in {u \in DOMAIN last.info.updates : last.info.updates[u].is_trading_day}}

\* C17: calculate_portfolio_metrics returns alpha, beta, sharpe_ratio,
\* max_drawdown and std_dev 0, and does not raise (the day has its stat),
\* whenever fewer than 2 stat rows of the portfolio are dated within the 90
\* days up to the date
C17_FewerThanTwoRowsGiveZeros ==
    Replayed =>
        \A v \in Valued :
            Cardinality(RowsInWindow(v[1], v[2], 90)) < 2
            => LET stat == portfolio_stats[v[1]]
               IN  /\ stat.alpha = "zero" /\ stat.beta = "zero"
                   /\ stat.sharpe_ratio = "zero" /\ stat.max_drawdown = "zero"
                   /\ stat.std_dev = "zero"

\* a replay with a day valued with one row in the window and a day valued
\* with more
C17_Witness ==
    /\ Replayed
    /\ \E v \in Valued : Cardinality(RowsInWindow(v[1], v[2], 90)) = 1
    /\ \E v \in Valued : /\ Cardinality(RowsInWindow(v[1], v[2], 90)) >= 2
                          /\ portfolio_stats[v[1]].sharpe_ratio # "zero"

\* the trades of the portfolio dated within the 60 days up to the end date of
\* the last call of calculate_portfolio_turnover, and their value on one side
TurnoverWindow(table, at) ==
    {i \in DOMAIN table :
        /\ table[i].portfolio_id = last.info.portfolio_id
        /\ DateOf(at[i]) >= last.info.end_date - 60
        /\ DateOf(at[i]) <= last.info.end_date}
TradesInWindow == TurnoverWindow(trades, [i \in DOMAIN trades |-> trades[i].traded_at])
StatsInWindow ==
    TurnoverWindow(portfolio_stats,
                   [i \in DOMAIN portfolio_stats |-> portfolio_stats[i].recorded_at])

RECURSIVE TradedOnSide(_, _)
TradedOnSide(rows, side) ==
    IF rows = {} THEN DecZero
    ELSE LET i == CHOOSE r \in rows : TRUE
             t == trades[i]
         IN  DecAdd(IF t.trade_type = side
                    THEN <<t.quantity[1] * t.price + ((t.quantity[2] * t.price) \div 10000),
                           (t.quantity[2] * t.price) % 10000>>
                    ELSE DecZero,
                    TradedOnSide(rows \ {i}, side))

RECURSIVE BalanceTotal(_)
BalanceTotal(rows) ==
    IF rows = {} THEN 0
    ELSE LET i == CHOOSE r \in rows : TRUE
         IN  portfolio_stats[i].portfolio_balance + BalanceTotal(rows \ {i})

\* the value on the end date of the latest snapshot of symbol s at or before it
HeldValue(s) ==
    LET rows == {i \in DOMAIN positions :
                    /\ positions[i].portfolio_id = last.info.portfolio_id
                    /\ positions[i].symbol_id = s
                    /\ DateOf(positions[i].recorded_at) <= last.info.end_date}
        latest == CHOOSE i \in rows : \A j \in rows :
                      positions[j].recorded_at <= positions[i].recorded_at
    IN  IF rows = {} THEN 0
        ELSE positions[latest].quantity
                 * get_symbol_price(symbol_prices, s, last.info.end_date)

\* the sum and the number of the balances the average is taken over: the stats
\* of the window, or the value of the holdings when the window has no stat
AverageOver ==
    IF StatsInWindow = {}
    THEN [total |-> HeldValue(MONEY_MARKET) + HeldValue("A") + HeldValue("B"), count |-> 1]
    ELSE [total |-> BalanceTotal(StatsInWindow), count |-> Cardinality(StatsInWindow)]

TurnoverAsked == last.op = "calculate_portfolio_turnover"

\* C18: calculate_portfolio_turnover returns 0 when no trade of the portfolio
\* is dated in the 60 days up to the end date or when the average balance over
\* the window is 0; in every other case it returns max(total buy value, total
\* sell value) / average balance * 365 / 60 to the 8 decimal places of its
\* result (the nearest multiple of 0.00000001), which is never negative and
\* can exceed 1
C18_TurnoverIsAnnualizedRatio ==
    TurnoverAsked =>
        LET buys == TradedOnSide(TradesInWindow, "Buy")
            sells == TradedOnSide(TradesInWindow, "Sell")
            larger == IF DecLt(buys, sells) THEN sells ELSE buys
            avg == AverageOver
            D == TurnoverDivisor(avg.total)
            ratio == TurnoverRatio(larger, avg.total, avg.count)
            result == last.info.turnover
        IN  /\ result >= 0
            /\ IF TradesInWindow = {} \/ avg.total = 0 THEN result = 0
               ELSE \/ result = ratio.q /\ 2 * ratio.r <= D
                    \/ result = ratio.q + 1 /\ 2 * ratio.r >= D

\* a call with trades in the window and an average balance above 0 over the
\* stats of the window that returns a turnover above 1
C18_Witness ==
    /\ TurnoverAsked
    /\ TradesInWindow # {}
    /\ StatsInWindow # {}
    /\ AverageOver.total > 0
    /\ last.info.turnover > 100000000

\* the snapshots of symbol s of the portfolio of the last execution that were
\* in the ledger when it planned, recorded on or before the batch's date
SnapshotsAsOf(s) ==
    {i \in 1..last.info.positions_before :
        /\ positions[i].portfolio_id = last.info.portfolio_id
        /\ positions[i].symbol_id = s
        /\ DateOf(positions[i].recorded_at) <= last.info.trade_date}

\* C19: the planner computes its trades against, for each symbol, the snapshot
\* of the greatest recorded_at among those recorded at or before the batch's
\* date, and ignores every snapshot recorded after that date
C19_PlannerUsesPositionsAsOfBatchDate ==
    Planned =>
        \A s \in Symbols :
            IF SnapshotsAsOf(s) = {} THEN s \notin DOMAIN last.info.latest_positions
            ELSE /\ s \in DOMAIN last.info.latest_positions
                 /\ \E i \in SnapshotsAsOf(s) :
                        /\ \A j \in SnapshotsAsOf(s) :
                               positions[j].recorded_at <= positions[i].recorded_at
                        /\ last.info.latest_positions[s].recorded_at = positions[i].recorded_at
                        /\ last.info.latest_positions[s].quantity = positions[i].quantity

\* the quantities of symbol s that the latest snapshots of the replayed
\* portfolio recorded on or before day d hold (several when snapshots of one
\* recorded_at differ)
HeldOn(s, d) ==
    LET rows == {i \in DOMAIN positions :
                    /\ positions[i].portfolio_id = last.info.portfolio_id
                    /\ positions[i].symbol_id = s
                    /\ DateOf(positions[i].recorded_at) <= d}
    IN  IF rows = {} THEN {0}
        ELSE {positions[i].quantity :
                 i \in {r \in rows : \A j \in rows :
                            positions[j].recorded_at <= positions[r].recorded_at}}

\* C20: the balance of the stat of a trading day D is the sum of quantity x
\* price(D) over the latest snapshot of every symbol among the snapshots
\* recorded on or before day D, a snapshot stamped at the market close of D
\* included
C20_ValuationCountsSnapshotsOfTheDay ==
    Replayed =>
        \A v \in Valued :
            \E m \in HeldOn(MONEY_MARKET, v[2]), a \in HeldOn("A", v[2]),
               b \in HeldOn("B", v[2]) :
                portfolio_stats[v[1]].portfolio_balance =
                    m * get_symbol_price(symbol_prices, MONEY_MARKET, v[2])
                    + a * get_symbol_price(symbol_prices, "A", v[2])
                    + b * get_symbol_price(symbol_prices, "B", v[2])

\* C21: no intent of the plan of calculate_trades has price 0, and every
\* intent has a quantity above 0: a symbol whose price on the trade date is 0
\* is not traded, allocated or held and absent from the batch
C21_NoIntentAtPriceZero ==
    Planned =>
        \A k \in DOMAIN last.info.plan :
            /\ last.info.plan[k].price # 0
            /\ DecLt(DecZero, last.info.plan[k].quantity)

MetricsAsked == last.op = "calculate_portfolio_metrics"

\* C22: no metric calculate_portfolio_metrics returns is NaN or infinite: a
\* statistic that is NaN is replaced with 0, each one on its own
C22_NoMetricIsNaN ==
    MetricsAsked =>
        /\ last.info.metrics.alpha # "nan"
        /\ last.info.metrics.beta # "nan"
        /\ last.info.metrics.sharpe_ratio # "nan"
        /\ last.info.metrics.max_drawdown # "nan"
        /\ last.info.metrics.std_dev # "nan"

\* the stat rows of the portfolio dated within the 90 days up to the end date
\* of the last call of calculate_portfolio_metrics, and the benchmark's price
\* points of those days
MetricRows ==
    {i \in DOMAIN portfolio_stats :
        /\ portfolio_stats[i].portfolio_id = last.info.portfolio_id
        /\ DateOf(portfolio_stats[i].recorded_at) >= last.info.end_date - 90
        /\ DateOf(portfolio_stats[i].recorded_at) <= last.info.end_date}
BenchmarkDays ==
    {k[2] : k \in {q \in DOMAIN symbol_prices :
                      /\ q[1] = "SPY"
                      /\ q[2] >= last.info.end_date - 90 /\ q[2] <= last.info.end_date}}

\* the days on which both the portfolio and the benchmark have a return: a
\* stat of the day that follows a stat of a balance other than 0, and a price
\* point of the day that follows a price point
JoinedDays ==
    {d \in BenchmarkDays :
        /\ \E j \in BenchmarkDays : j < d
        /\ \E i \in MetricRows :
              /\ DateOf(portfolio_stats[i].recorded_at) = d
              /\ \E h \in MetricRows :
                    /\ portfolio_stats[h].recorded_at < portfolio_stats[i].recorded_at
                    /\ portfolio_stats[h].portfolio_balance # 0}

\* the statistics of the portfolio's balances alone
PortfolioAlone ==
    FallbackMetrics([k \in 1..Cardinality(MetricRows) |->
        portfolio_stats[CHOOSE i \in MetricRows :
            Cardinality({j \in MetricRows : j <= i}) = k].portfolio_balance])

\* C23: with 2 stat rows or more in the window and no benchmark symbol, no
\* benchmark price in the window, or fewer than 2 days on which both series
\* have a return, calculate_portfolio_metrics returns alpha and beta 0 and
\* the sharpe_ratio, max_drawdown and std_dev of the portfolio's balances
\* alone: a statistic of theirs that is above or below 0 is returned, not 0
C23_FallbackKeepsPortfolioStatistics ==
    (/\ MetricsAsked
     /\ Cardinality(MetricRows) >= 2
     /\ \/ "SPY" \notin symbols
        \/ BenchmarkDays = {}
        \/ Cardinality(JoinedDays) < 2)
    => /\ last.info.metrics.alpha = "zero"
       /\ last.info.metrics.beta = "zero"
       /\ PortfolioAlone.sharpe_ratio \in {"negative", "positive"}
             => last.info.metrics.sharpe_ratio = PortfolioAlone.sharpe_ratio
       /\ PortfolioAlone.max_drawdown \in {"negative", "positive"}
             => last.info.metrics.max_drawdown = PortfolioAlone.max_drawdown
       /\ PortfolioAlone.std_dev \in {"negative", "positive"}
             => last.info.metrics.std_dev = PortfolioAlone.std_dev

\* C24: execute_full_trade and update_portfolio_balance only insert: every
\* Position, Trade and Portfolio Stat row there was before the operation is
\* there unchanged after it, whether it succeeded or failed
C24_OperationsOnlyInsert ==
    [][last'.op \in {"execute_full_trade", "update_portfolio_balance"}
          => /\ IsPrefix(positions, positions')
             /\ IsPrefix(trades, trades')
             /\ IsPrefix(portfolio_stats, portfolio_stats')]_vars

\* a replay that added stats to a ledger that already had stats, snapshots
\* and trades
C24_Witness ==
    /\ Replayed
    /\ last.info.stats_before > 1
    /\ Len(portfolio_stats) > last.info.stats_before
    /\ trades # <<>>
    /\ Len(positions) > 1

\* C25: no two snapshots of one portfolio and one symbol share a recorded_at,
\* after any sequence of seeds and executions, so that the latest snapshot of
\* every symbol is one row
C25_OneSnapshotPerInstant ==
    \A i, j \in DOMAIN positions :
        (/\ i < j
         /\ positions[i].portfolio_id = positions[j].portfolio_id
         /\ positions[i].symbol_id = positions[j].symbol_id)
        => positions[i].recorded_at # positions[j].recorded_at

\* the sum of the quantities of the trades rows of symbol s on one side
RECURSIVE TradedQuantity(_, _)
TradedQuantity(rows, side) ==
    IF rows = {} THEN DecZero
    ELSE LET i == CHOOSE r \in rows : TRUE
         IN  DecAdd(IF trades[i].trade_type = side THEN trades[i].quantity ELSE DecZero,
                    TradedQuantity(rows \ {i}, side))

\* the quantity the seed gives symbol s: 1,000,000 of MONEY_MARKET
SeedQuantityOf(s) == IF s = MONEY_MARKET THEN Dec(1000000) ELSE DecZero

\* the latest snapshots of symbol s of portfolio pid
CurrentSnapshots(pid, s) ==
    {i \in DOMAIN positions :
        /\ positions[i].portfolio_id = pid /\ positions[i].symbol_id = s
        /\ \A j \in DOMAIN positions :
              (positions[j].portfolio_id = pid /\ positions[j].symbol_id = s)
              => positions[j].recorded_at <= positions[i].recorded_at}

\* C26: for a seeded portfolio and every symbol, the quantity of the latest
\* snapshot (0 with no snapshot) is the seed quantity plus the quantities of
\* the symbol's Buy trades minus those of its Sell trades
C26_LedgerMatchesTrades ==
    \A pid \in Portfolios :
        (\E i \in DOMAIN positions : positions[i].portfolio_id = pid)
        => \A s \in Symbols :
              LET mine == {i \in DOMAIN trades :
                              trades[i].portfolio_id = pid /\ trades[i].symbol_id = s}
                  net == DecSub(DecAdd(SeedQuantityOf(s), TradedQuantity(mine, "Buy")),
                                TradedQuantity(mine, "Sell"))
              IN  IF CurrentSnapshots(pid, s) = {} THEN net = DecZero
                  ELSE \A i \in CurrentSnapshots(pid, s) : Dec(positions[i].quantity) = net

\* C27: no snapshot ever holds a negative quantity after seeding, executions
\* and manual updates, and update_positions turns down, writing nothing, the
\* sale of more than the latest snapshot holds and the sale of a symbol the
\* portfolio has no snapshot of.
Updated == last.op = "update_positions"
SaleTurnedDown ==
    (/\ Updated' /\ last'.info.trade_type = SELL
     /\ \A i \in CurrentSnapshots(last'.info.portfolio_id, last'.info.symbol) :
            positions[i].quantity < last'.info.quantity)
    => last'.status = "error" /\ positions' = positions /\ trades' = trades
C27_NoNegativeQuantity ==
    /\ [](\A i \in DOMAIN positions : positions[i].quantity >= 0)
    /\ [][SaleTurnedDown]_vars
\* a sale of more than is held has been turned down, in a table that holds a
\* manual update and the trades of an execution
C27_Witness ==
    /\ Updated /\ last.status = "error" /\ last.info.trade_type = SELL
    /\ CurrentSnapshots(last.info.portfolio_id, last.info.symbol) # {}
    /\ \E i \in DOMAIN positions : positions[i].recorded_at > current_time
    /\ \E i \in DOMAIN trades : trades[i].portfolio_id = last.info.portfolio_id

\* C28: a step of run_backtest(P, dates) leaves the positions, trades and
\* stats of every other portfolio as they were, and the batch it goes on to
\* execute for a date has only rows of P.
BacktestStepped == backtest' # backtest
C28_BacktestTouchesOnePortfolio ==
    [][BacktestStepped =>
          LET P == backtest'.portfolio_id
          IN  /\ NotOf(positions', P) = NotOf(positions, P)
              /\ NotOf(trades', P) = NotOf(trades, P)
              /\ NotOf(portfolio_stats', P) = NotOf(portfolio_stats, P)
              /\ backtest'.pc = "trade"
                 => \A i \in DOMAIN allocations :
                       allocations[i].allocation_batch_id = backtest'.allocation_batch_id
                       => allocations[i].portfolio_id = P]_vars

\* C29: when a replay stops in the middle of the month, the stats it has
\* written are the first stats an uninterrupted replay writes; and the replay
\* of the same month run next leaves, for every day of the month, one stat,
\* the one the uninterrupted replay would have written.
Stopped == last.op = "update_portfolio_balance" /\ last.status = "stopped"
\* the stats an uninterrupted replay of the month adds to the table the
\* stopped replay found, under a choice of the rows that tie
Uninterrupted(tbPrev, tbPos) ==
    LET found == SubSeq(portfolio_stats, 1, last.info.stats_before)
        pid == last.info.portfolio_id
        all_days == get_all_days_in_month(last.info.month)
        before == {i \in RowsOf(found, pid) : found[i].recorded_at < Midnight(all_days[1])}
        previous_stat == found[LatestRow(found, before, tbPrev)]
        start == [stats |-> found,
                  last_known_balance |->
                      IF before = {} THEN <<>> ELSE <<previous_stat.portfolio_balance>>,
                  last_known_metrics |->
                      IF before = {} THEN <<>> ELSE <<KnownMetrics(previous_stat)>>,
                  carried |-> <<>>, updates |-> <<>>, errors |-> <<>>]
        out == ReplayDays(start, all_days, 1, positions, trades, symbol_prices, pid, 0,
                          tbPos, tbPrev)
    IN  SubSeq(out.stats, last.info.stats_before + 1, Len(out.stats))
\* the stats of the days of the month, in the order of the table
StatsOfMonth(stats, pid, m) ==
    SelectSeq(stats, LAMBDA r : /\ r.portfolio_id = pid
                                /\ \E i \in 1..DaysInMonth(m) :
                                      r.recorded_at = Midnight(DaysBefore(m) + i))
StoppedIsPrefix ==
    Stopped => \E tbPrev \in TieBreaks, tbPos \in TieBreaks :
                  IsPrefix(SubSeq(portfolio_stats, last.info.stats_before + 1,
                                  Len(portfolio_stats)),
                           Uninterrupted(tbPrev, tbPos))
RerunRestores ==
    (/\ Stopped /\ Replayed'
     /\ last'.info.portfolio_id = last.info.portfolio_id
     /\ last'.info.month = last.info.month)
    => \E tbPrev \in TieBreaks, tbPos \in TieBreaks :
          StatsOfMonth(portfolio_stats', last.info.portfolio_id, last.info.month)
              = StatsOfMonth(SubSeq(portfolio_stats, 1, last.info.stats_before)
                                 \o Uninterrupted(tbPrev, tbPos),
                             last.info.portfolio_id, last.info.month)
C29_StoppedReplayIsPrefixAndRerunRestores == [](StoppedIsPrefix) /\ [][RerunRestores]_vars

\* C30: when two execute_full_trade requests of one portfolio have both
\* committed, however their steps interleaved, the trades of the table and the
\* current quantity of every symbol are those one of the two serial orders of
\* the two requests leaves.
BothCommitted ==
    /\ \A w \in Workers : calls[w].pc = "done" /\ calls[w].current # <<>>
    /\ calls[1].portfolio_id = calls[2].portfolio_id
\* the worker whose request started first, and the other one
FirstStarted == IF Len(calls[1].found.trades) <= Len(calls[2].found.trades)
                   /\ Len(calls[1].found.positions) <= Len(calls[2].found.positions)
                THEN 1 ELSE 2
\* how many times a row is in a table
TimesIn(table, r) == Cardinality({i \in DOMAIN table : table[i] = r})
\* the quantities of the latest snapshots of a symbol in a ledger
CurrentQuantities(pos, pid, s) ==
    {pos[i].quantity :
        i \in {k \in DOMAIN pos :
                  /\ pos[k].portfolio_id = pid /\ pos[k].symbol_id = s
                  /\ \A j \in DOMAIN pos :
                        (pos[j].portfolio_id = pid /\ pos[j].symbol_id = s)
                        => pos[j].recorded_at <= pos[k].recorded_at}}
SameLedger(db) ==
    /\ Len(db.trades) = Len(trades)
    /\ \A i \in DOMAIN trades : TimesIn(db.trades, trades[i]) = TimesIn(trades, trades[i])
    /\ \A s \in Symbols :
          CurrentQuantities(db.positions, calls[1].portfolio_id, s)
              = CurrentQuantities(positions, calls[1].portfolio_id, s)
C30_InterleavedRebalancesAreSerializable ==
    BothCommitted
    => \E first \in Workers, tb \in [1..4 -> TieBreaks] :
          LET second == CHOOSE w \in Workers : w # first
          IN  SameLedger(execute_alone(execute_alone(calls[FirstStarted].found,
                                                     calls[first].batch, tb[1], tb[2]),
                                       calls[second].batch, tb[3], tb[4]))

====
